---- MODULE Spec2Model ----
(***************************************************************************)
(* The debate engine of Onion Ring (src/src/ai/debateEngine.ts): runDebate *)
(* with its helpers waitWhilePaused and doPacing, run against a host that  *)
(* owns the session status, the message log and the abort signal.          *)
(*                                                                         *)
(* runDebate is one async function on a single-threaded event loop: the    *)
(* host's commands (pause, resume, stop, abort, message injection) are     *)
(* event handlers and run only while the engine is suspended in a timer,   *)
(* a provider call or the manual-advance promise.  The code between two    *)
(* suspension points runs to completion: every engine action below is one  *)
(* wake-up followed by Run, which executes the code blocks up to the next  *)
(* suspension point or to the end of runDebate.                            *)
(*                                                                         *)
(* The context sent with a call (buildApiMessages) never influences the    *)
(* control flow of runDebate; the run records only whether a call is the   *)
(* provider's first one.                                                   *)
(* The builders themselves are pure functions of the message log; they are *)
(* exercised on their own in SpecContext, on logs longer than the windows. *)
(* SpecUncancelled is the engine without cancellation, under fairness.     *)
(***************************************************************************)
EXTENDS Integers, Sequences, FiniteSets, TLC

\* ---------------------------------------------------------------- bounds
MaxRounds == 2
MaxDelay == 2
MaxInject == 1
MaxTurns == 6

\* ------------------------------------------------------- program constants
PauseThreshold == 2

\* ------------------------------------------------------------ data model
Providers == {"openai", "anthropic", "gemini"}

Null == "null"
Undefined == "undefined"
NoConfig == <<"no-config">>

\* no context has been built
NoBuild ==
  [ builder |-> "none", provider |-> "null", isFirstCall |-> FALSE,
    isArtworkMode |-> FALSE, referenceFiles |-> <<>>, currentRound |-> 0 ]

\* API keys are character sequences, so that trim() is computed, not assumed

Whitespace == {" "}

RECURSIVE TrimStart(_)
TrimStart(str) ==
  IF str # <<>> /\ Head(str) \in Whitespace THEN TrimStart(Tail(str)) ELSE str

RECURSIVE TrimEnd(_)
TrimEnd(str) ==
  IF str # <<>> /\ str[Len(str)] \in Whitespace
    THEN TrimEnd(SubSeq(str, 1, Len(str) - 1))
    ELSE str

trim(str) == TrimEnd(TrimStart(str))

Modes == {"roundRobin", "battle", "artworkEval"}
ArtworkSubModes == {"multiAiDiscussion", "roleBasedIndividual", "scoreFeedback"}
ParticipantLists ==
  { <<"openai", "anthropic">>, <<"gemini", "openai", "anthropic">> }

\* what callProvider resolves to: { content, stopReason }
Responses ==
  { [stopReason |-> "end_turn", content |-> "reply"],
    [stopReason |-> "max_tokens", content |-> "reply"],
    [stopReason |-> "error", content |-> "request failed"] }

VARIABLES
  config,                 \* DiscussionConfig, frozen at start
  providerConfigs,        \* Record<AIProvider, AIConfig>
  status,                 \* the host's session status (getStatus)
  aborted,                \* signal.aborted
  injected,               \* number of user messages the host put into its log
  pc,                     \* the engine's position in runDebate
  phase,                  \* "debater" | "judge": which turn code is running
  site,                   \* which waitWhilePaused call is running: "pre" | "err"
  round,                  \* loop variable of runDebate
  turnIndex,              \* loop variable of runDebate
  s,                      \* loop variable of doPacing's countdown
  consecutiveErrors,      \* runDebate's local counter
  providersFirstCallDone, \* runDebate's local set
  trace,                  \* history: every callback and dispatch, in order
  inFlight,               \* history: provider calls dispatched and not returned
  autoPausePending,       \* history: auto-pause reported, host has not resumed yet
  abortedAt,              \* history: Len(trace) when the signal was aborted, or -1
  abortPc,                \* history: pc when the signal was aborted
  log,                    \* a message log handed to a context builder
  apiMessages,            \* the context a builder returned for that log
  builtFor,               \* the arguments of that build
  promptConfig,           \* a DiscussionConfig handed to a prompt builder
  promptFor,              \* the provider the prompt is built for
  systemPrompt,           \* the prompt a builder returned, as its sections
  builtBy,                \* the builder that returned it
  db,                     \* DebateDB.db: whether it is set, and the rows of
                          \* the three tables
  dirty,                  \* DebateDB.dirty
  saveScheduled,          \* DebateDB.saveTimer is pending
  timerLeft,              \* the ticks until the pending saveTimer fires
  persisting,             \* the _persist() calls awaiting saveDatabaseToIDB,
                          \* oldest first: the data each exported, and
                          \* whether _doInit made the call
  idb,                    \* the snapshot stored in IndexedDB under IDB_KEY
  initPromise,            \* DebateDB.initPromise: 0 for null, else the
                          \* number of the _doInit run whose promise it is
  doInit,                 \* where the running _doInit stands
  attempts,               \* history: the outcome of every _doInit run
  initCalls,              \* history: for every init() call, the _doInit run
                          \* whose promise it returned
  lastCall,               \* history: the last saveDebateBundle call and the
                          \* state it found
  data,                   \* a value handed to validateConfig
  validation,             \* what validateConfig returned for it
  retryConfig,            \* APIClient.retryConfig
  retryLog,               \* history: the delays retryDelay returned, for the
                          \* retry counts 1, 2, ... of one request
  fileInput,              \* the arguments of a processFileList call
  fileResult              \* what the call resolved with

\* the variables of the context builders; a run of the engine leaves them alone
contextVars == << log, apiMessages, builtFor >>

\* the variables of the prompt builders
promptVars == << promptConfig, promptFor, systemPrompt, builtBy >>

\* the variables only the specifications of pure functions and of the store use
\* the variables of the store
initVars == << initPromise, doInit, attempts, initCalls >>
dbVars == << db, dirty, saveScheduled, timerLeft, persisting, idb, lastCall, initVars >>

\* the variables of the helpers of src/lib
validateVars == << data, validation >>
retryVars == << retryConfig, retryLog >>
fileVars == << fileInput, fileResult >>
libVars == << validateVars, retryVars, fileVars >>

auxVars == << promptVars, dbVars, libVars >>

vars == << config, providerConfigs, status, aborted, injected, pc, phase, site,
           round, turnIndex, s, consecutiveErrors, providersFirstCallDone,
           trace, inFlight, autoPausePending, abortedAt, abortPc, contextVars,
           auxVars >>

\* ------------------------------------------------- values derived in runDebate
isBattleMode == config.mode = "battle" /\ config.judgeProvider # Null

isArtworkMode == config.mode = "artworkEval"

RECURSIVE SeqFilterOut(_, _)
SeqFilterOut(seq, x) ==
  IF seq = <<>> THEN <<>>
  ELSE IF Head(seq) = x THEN SeqFilterOut(Tail(seq), x)
  ELSE <<Head(seq)>> \o SeqFilterOut(Tail(seq), x)

\* faulty variant: the judge is not taken out of the debaters
turnParticipants_unfiltered == config.participants

turnParticipants ==
  IF isBattleMode
    THEN SeqFilterOut(config.participants, config.judgeProvider)
    ELSE config.participants

\* faulty variant: the individual artwork sub-modes run maxRounds rounds too
effectiveMaxRounds_unforced == config.maxRounds

effectiveMaxRounds ==
  IF isArtworkMode /\ config.artworkSubMode \in {"roleBasedIndividual", "scoreFeedback"}
    THEN 1
    ELSE config.maxRounds

getArtworkMessageType ==
  IF ~isArtworkMode THEN Undefined
  ELSE IF config.artworkSubMode = "scoreFeedback" THEN "artwork-score"
  ELSE "artwork-critique"

\* faulty variant: the key is tested without trim()
hasCredentials_noTrim(provider) ==
  /\ providerConfigs[provider] # NoConfig
  /\ providerConfigs[provider] # <<>>

\* !providerConfig || !providerConfig.apiKey.trim()  is the skip condition
hasCredentials(provider) ==
  /\ providerConfigs[provider] # NoConfig
  /\ trim(providerConfigs[provider]) # <<>>

isError(response) == response.stopReason = "error"

\* faulty variant: the failure text is not copied into the message
messageError_dropped(response) == Undefined

messageError(response) == IF isError(response) THEN response.content ELSE Undefined

\* faulty variant: the pause comes one failure late
shouldPause_late(errors) == errors > PauseThreshold

\* faulty variant: the pause comes at the first failure
shouldPause_early(errors) == errors >= PauseThreshold - 1

shouldPause(errors) == errors >= PauseThreshold

\* ------------------------------------------------------- observable events
Ev(kind, p, r, t, n, v, c, e) ==
  [ ev |-> kind, provider |-> p, round |-> r, turnIndex |-> t, n |-> n,
    value |-> v, content |-> c, error |-> e ]

StatusEv(st) == Ev("status", Null, 0, 0, 0, st, "", Undefined)
RoundEv(r, t) == Ev("round", Null, r, t, 0, "", "", Undefined)
LoadingEv(p) == Ev("loading", p, 0, 0, 0, "", "", Undefined)
TickEv(n) == Ev("tick", Null, 0, 0, n, "", "", Undefined)
MessageEv(m) == Ev("message", m.provider, m.round, 0, 0, m.messageType, m.content, m.error)
CallEv(p, r, t, kind, first) ==
  Ev("call", p, r, t, 0, kind, IF first THEN "first-call" ELSE "later-call", Undefined)

\* ------------------------------------------------- the engine's code blocks
\* Each block maps the engine's state e (a record of the engine's variables)
\* to its state after the block.

SuspensionPoints ==
  {"sleep500", "callProvider", "waitForNextTurn", "countdownSleep500", "sleep1000"}

Terminal == {"returned", "completed", "rejected"}

\* faulty variant: the debaters are taken from the end of the list
currentProvider_reversed(e) ==
  IF e.phase = "judge" THEN config.judgeProvider
  ELSE turnParticipants[Len(turnParticipants) - e.turnIndex]

\* the provider whose turn it is
currentProvider(e) ==
  IF e.phase = "judge" THEN config.judgeProvider ELSE turnParticipants[e.turnIndex + 1]

\* faulty variant: the judge's message is typed like a debater's
newMessage_noJudgeType(e, response) ==
  [ provider |-> currentProvider(e),
    content |-> response.content,
    round |-> e.round,
    error |-> messageError(response),
    messageType |-> getArtworkMessageType ]

\* DiscussionMessage built from a response
newMessage(e, response) ==
  [ provider |-> currentProvider(e),
    content |-> response.content,
    round |-> e.round,
    error |-> messageError(response),
    messageType |-> IF e.phase = "judge" THEN "judge-evaluation"
                    ELSE getArtworkMessageType ]

\* lines 438-482: locals, onStatusChange('running')
runDebate(e) ==
  [e EXCEPT !.consecutiveErrors = 0,
            !.providersFirstCallDone = {},
            !.trace = Append(@, StatusEv("running")),
            !.status = "running",
            !.round = 1,
            !.turnIndex = 0,
            !.phase = "debater",
            !.pc = "roundLoop"]

\* line 484: for (round = 1; round <= effectiveMaxRounds; round++)
roundLoop(e) ==
  IF e.round <= effectiveMaxRounds
    THEN [e EXCEPT !.turnIndex = 0, !.phase = "debater", !.pc = "turnLoop"]
    ELSE [e EXCEPT !.pc = "finish"]

\* lines 486-491: inner loop head, abort check, call of waitWhilePaused
turnLoop(e) ==
  IF e.turnIndex < Len(turnParticipants)
    THEN IF aborted
           THEN [e EXCEPT !.pc = "returned"]
           ELSE [e EXCEPT !.pc = "waitWhilePaused", !.site = "pre"]
    ELSE [e EXCEPT !.pc = "judgeTurn"]

\* lines 566-569: judge section head, abort check, call of waitWhilePaused
judgeTurn(e) ==
  IF isBattleMode /\ config.judgeProvider # Null
    THEN IF aborted
           THEN [e EXCEPT !.pc = "returned"]
           ELSE [e EXCEPT !.pc = "waitWhilePaused", !.site = "pre", !.phase = "judge"]
    ELSE [e EXCEPT !.round = @ + 1, !.pc = "roundLoop"]

\* faulty variant: the engine does not wait for the pause to end
waitWhilePaused_noWait(e) ==
  [e EXCEPT !.pc = IF e.site = "pre" THEN "turnBody" ELSE "errResumed"]

\* lines 423, 427: the while condition and the result of waitWhilePaused
waitWhilePaused(e) ==
  IF e.status = "paused" THEN [e EXCEPT !.pc = "sleep500"]
  ELSE IF e.status = "running"
    THEN [e EXCEPT !.pc = IF e.site = "pre" THEN "turnBody" ELSE "errResumed"]
  ELSE [e EXCEPT !.pc = "returned"]

\* the loop iteration is over: turnIndex++ of the inner loop, or round++
nextIteration(e) ==
  IF e.phase = "judge"
    THEN [e EXCEPT !.round = @ + 1, !.pc = "roundLoop"]
    ELSE [e EXCEPT !.turnIndex = @ + 1, !.pc = "turnLoop"]

\* faulty variant: the call is not awaited, the engine goes on to the pacing
AfterDispatch_notAwaited == "doPacing"

\* where the engine is after it has dispatched a call: awaiting its result
AfterDispatch == "callProvider"

\* faulty variant: the cursor is reported from the end of the turn list
dispatch_reversedCursor(e) ==
  [e EXCEPT !.trace = @ \o
              (IF e.phase = "judge"
                 THEN << LoadingEv(currentProvider(e)),
                         CallEv(currentProvider(e), e.round, e.turnIndex, "judge", FALSE) >>
                 ELSE << RoundEv(e.round, Len(turnParticipants) - 1 - e.turnIndex),
                         LoadingEv(currentProvider(e)),
                         CallEv(currentProvider(e), e.round, e.turnIndex, "debater",
                                currentProvider(e) \notin e.providersFirstCallDone) >>),
            !.inFlight = @ + 1,
            !.pc = AfterDispatch]

\* lines 501-523, 575-591: callbacks, prompt and context, callProvider(...)
dispatch(e) ==
  [e EXCEPT !.trace = @ \o
              (IF e.phase = "judge"
                 THEN << LoadingEv(currentProvider(e)),
                         CallEv(currentProvider(e), e.round, e.turnIndex, "judge", FALSE) >>
                 ELSE << RoundEv(e.round, e.turnIndex),
                         LoadingEv(currentProvider(e)),
                         CallEv(currentProvider(e), e.round, e.turnIndex, "debater",
                                currentProvider(e) \notin e.providersFirstCallDone) >>),
            !.inFlight = @ + 1,
            !.pc = AfterDispatch]

\* faulty variant: a skipped slot resets the failure counter
turnBody_skipResets(e) ==
  IF hasCredentials(currentProvider(e))
    THEN dispatch(e)
    ELSE nextIteration([e EXCEPT !.consecutiveErrors = 0])

\* faulty variant: a skipped slot is followed by the pacing wait
turnBody_skipPaces(e) ==
  IF hasCredentials(currentProvider(e))
    THEN dispatch(e)
    ELSE [e EXCEPT !.pc = "doPacing"]

\* lines 493-499, 571-574: skip the provider when it is not configured
turnBody(e) ==
  IF hasCredentials(currentProvider(e)) THEN dispatch(e) ELSE nextIteration(e)

\* lines 550-560, 614-623: track consecutive errors
trackErrors(e, response) ==
  IF isError(response)
    THEN IF shouldPause(e.consecutiveErrors + 1)
           THEN [e EXCEPT !.consecutiveErrors = @ + 1,
                          !.trace = Append(@, StatusEv("paused")),
                          !.status = "paused",
                          !.autoPausePending = TRUE,
                          !.site = "err",
                          !.pc = "waitWhilePaused"]
           ELSE [e EXCEPT !.consecutiveErrors = @ + 1, !.pc = "doPacing"]
    ELSE [e EXCEPT !.consecutiveErrors = 0, !.pc = "doPacing"]

\* faulty variant: a failed call is dropped instead of becoming a message
emitMessage_skipErrors(e, response) ==
  IF isError(response)
    THEN [e EXCEPT !.trace = Append(@, LoadingEv(Null))]
    ELSE [e EXCEPT !.trace = @ \o << LoadingEv(Null), MessageEv(newMessage(e, response)) >>,
                   !.providersFirstCallDone = @ \cup {currentProvider(e)}]

\* lines 528-548, 594-612: onLoadingChange(null), onMessage(message), and the
\* provider is marked as having had its first call (only on success)
emitMessage(e, response) ==
  [e EXCEPT !.trace = @ \o << LoadingEv(Null), MessageEv(newMessage(e, response)) >>,
            !.providersFirstCallDone =
               IF isError(response) THEN @ ELSE @ \cup {currentProvider(e)}]

\* lines 525-560, 593-623: the call resolved with a response
callProvider_resolved(e, response) ==
  IF aborted
    THEN [e EXCEPT !.inFlight = @ - 1, !.pc = "returned"]
    ELSE trackErrors(emitMessage([e EXCEPT !.inFlight = @ - 1], response), response)

\* the call rejected: the await throws and runDebate's promise rejects
callProvider_rejected(e) ==
  [e EXCEPT !.inFlight = @ - 1, !.pc = "rejected"]

\* faulty variant: the counter survives the resume
errResumed_noReset(e) ==
  [e EXCEPT !.pc = "doPacing"]

\* lines 556, 619: waitWhilePaused returned true after an auto-pause
errResumed(e) ==
  [e EXCEPT !.consecutiveErrors = 0, !.pc = "doPacing"]

\* lines 424-425: sleep(500) of waitWhilePaused is over
sleep500_over(e) ==
  [e EXCEPT !.pc = IF aborted THEN "returned" ELSE "waitWhilePaused"]

\* lines 391-395, 400: entry of doPacing
doPacing(e) ==
  IF aborted THEN [e EXCEPT !.pc = "returned"]
  ELSE IF config.pacing.mode = "manual"
    THEN [e EXCEPT !.trace = Append(@, TickEv(-1)), !.pc = "waitForNextTurn"]
    ELSE [e EXCEPT !.s = config.pacing.autoDelaySeconds, !.pc = "countdown"]

\* faulty variant: the signal is not checked when the wait is over
waitForNextTurn_resolved_noAbortCheck(e) ==
  IF e.status # "running" THEN [e EXCEPT !.pc = "returned"]
  ELSE [e EXCEPT !.trace = Append(@, TickEv(0)), !.pc = "nextIteration"]

\* lines 396-398: the promise of waitForNextTurn resolved
waitForNextTurn_resolved(e) ==
  IF aborted THEN [e EXCEPT !.pc = "returned"]
  ELSE IF e.status # "running" THEN [e EXCEPT !.pc = "returned"]
  ELSE [e EXCEPT !.trace = Append(@, TickEv(0)), !.pc = "nextIteration"]

\* lines 401-402, 411: loop head of the countdown; tick 0 after the loop
countdown(e) ==
  IF e.s > 0
    THEN IF aborted
           THEN [e EXCEPT !.pc = "returned"]
           ELSE [e EXCEPT !.pc = "countdownWhilePaused"]
    ELSE [e EXCEPT !.trace = Append(@, TickEv(0)), !.pc = "nextIteration"]

\* lines 403, 407-409: the pause loop of the countdown, then the tick
countdownWhilePaused(e) ==
  IF e.status = "paused" THEN [e EXCEPT !.pc = "countdownSleep500"]
  ELSE IF e.status # "running" THEN [e EXCEPT !.pc = "returned"]
  ELSE [e EXCEPT !.trace = Append(@, TickEv(e.s)), !.pc = "sleep1000"]

\* lines 404-405: sleep(500) of the countdown's pause loop is over
countdownSleep500_over(e) ==
  [e EXCEPT !.pc = IF aborted THEN "returned" ELSE "countdownWhilePaused"]

\* lines 409, 401: sleep(1000) is over; s--
sleep1000_over(e) ==
  [e EXCEPT !.s = @ - 1, !.pc = "countdown"]

\* faulty variant: 'completed' is reported before the loading indicator is cleared
finish_statusFirst(e) ==
  [e EXCEPT !.trace = @ \o << StatusEv("completed"), LoadingEv(Null) >>,
            !.status = "completed",
            !.pc = "completed"]

\* lines 631-632: all rounds are over
finish(e) ==
  [e EXCEPT !.trace = @ \o << LoadingEv(Null), StatusEv("completed") >>,
            !.status = "completed",
            !.pc = "completed"]

\* one block of synchronous code
Step(e) ==
  CASE e.pc = "roundLoop" -> roundLoop(e)
    [] e.pc = "turnLoop" -> turnLoop(e)
    [] e.pc = "judgeTurn" -> judgeTurn(e)
    [] e.pc = "waitWhilePaused" -> waitWhilePaused(e)
    [] e.pc = "turnBody" -> turnBody(e)
    [] e.pc = "errResumed" -> errResumed(e)
    [] e.pc = "doPacing" -> doPacing(e)
    [] e.pc = "countdown" -> countdown(e)
    [] e.pc = "countdownWhilePaused" -> countdownWhilePaused(e)
    [] e.pc = "nextIteration" -> nextIteration(e)
    [] e.pc = "finish" -> finish(e)

\* run to completion: up to the next await that yields to the event loop
\* (each block's result is bound to a value before the next block runs on it)
RECURSIVE Run(_)
Run(e) ==
  IF e.pc \in SuspensionPoints \cup Terminal THEN e
  ELSE CHOOSE r \in {Run(next) : next \in {Step(e)}} : TRUE

\* ------------------------------------------------------------ configurations
\* As the host builds it: a judge only in battle mode, an artwork sub-mode only
\* in artwork mode, a positive countdown (MaxDelay seconds), at least one
\* round; a run has at most MaxTurns debater slots over all its rounds.
\* Artwork sessions are modelled with the two-participant list only: they
\* schedule like round-robin ones.
Configs ==
  { c \in [ mode : Modes,
            participants : ParticipantLists,
            judgeProvider : {Null, "anthropic"},
            maxRounds : 1..MaxRounds,
            pacing : [mode : {"manual", "auto"}, autoDelaySeconds : {MaxDelay}],
            artworkSubMode : ArtworkSubModes ] :
      /\ c.mode # "artworkEval" => c.artworkSubMode = "multiAiDiscussion"
      /\ c.mode # "battle" => c.judgeProvider = Null
      /\ c.mode = "artworkEval" => Len(c.participants) = 2
      /\ Len(c.participants) * c.maxRounds <= MaxTurns }

\* each provider is either credentialed or not; the three ways of lacking
\* credentials (no config, empty key, blank key) and a padded key all occur
GoodConfig(provider) ==
  IF provider = "gemini" THEN <<" ", "k", " ">> ELSE <<"s", "k">>

BadConfig(provider) ==
  IF provider = "openai" THEN NoConfig
  ELSE IF provider = "anthropic" THEN <<" ">>
  ELSE <<>>

ProviderConfigChoices ==
  { [p \in Providers |-> IF p \in missing THEN BadConfig(p) ELSE GoodConfig(p)] :
      missing \in SUBSET Providers }

RunInit ==
  /\ config \in Configs
  /\ providerConfigs \in ProviderConfigChoices
  /\ status = "idle"
  /\ aborted = FALSE
  /\ injected = 0
  /\ pc = "idle"
  /\ phase = "debater"
  /\ site = "pre"
  /\ round = 0
  /\ turnIndex = 0
  /\ s = 0
  /\ consecutiveErrors = 0
  /\ providersFirstCallDone = {}
  /\ trace = <<>>
  /\ inFlight = 0
  /\ autoPausePending = FALSE
  /\ abortedAt = -1
  /\ abortPc = "none"

\* no context has been built
ContextIdle ==
  /\ log = <<>>
  /\ apiMessages = <<>>
  /\ builtFor = NoBuild

\* no prompt has been built
PromptIdle ==
  /\ promptConfig = NoConfig
  /\ promptFor = Null
  /\ systemPrompt = <<>>
  /\ builtBy = "none"

\* no call of the store has been made
NoCall == [outcome |-> "none"]

\* DebateDB.db is null
NoDb == [open |-> FALSE, debates |-> {}, messages |-> {}, reference_files |-> {}]

\* the store is not in use
DbIdle ==
  /\ db = NoDb
  /\ dirty = FALSE
  /\ saveScheduled = FALSE
  /\ timerLeft = 0
  /\ persisting = <<>>
  /\ idb = NoDb
  /\ lastCall = NoCall
  /\ initPromise = 0
  /\ doInit = "idle"
  /\ attempts = <<>>
  /\ initCalls = <<>>

\* a field that is absent from an object
Missing == [type |-> "undefined", n |-> 0, items |-> <<>>]

\* validateConfig has not been called
ValidateIdle ==
  /\ data = Missing
  /\ validation = [called |-> FALSE]

\* no request is being retried
RetryIdle ==
  /\ retryConfig = [maxRetries |-> 0]
  /\ retryLog = <<>>

\* processFileList has not been called
FilesIdle ==
  /\ fileInput = [isNull |-> TRUE, fileList |-> <<>>, existingCount |-> 0]
  /\ fileResult = [called |-> FALSE]

\* no helper of src/lib is in use
LibIdle ==
  /\ ValidateIdle
  /\ RetryIdle
  /\ FilesIdle

Init ==
  /\ RunInit
  /\ ContextIdle
  /\ PromptIdle
  /\ DbIdle
  /\ LibIdle

\* the engine's variables as one record, and back
Engine ==
  [ pc |-> pc, phase |-> phase, site |-> site, round |-> round,
    turnIndex |-> turnIndex, s |-> s, consecutiveErrors |-> consecutiveErrors,
    providersFirstCallDone |-> providersFirstCallDone, trace |-> trace,
    status |-> status, inFlight |-> inFlight,
    autoPausePending |-> autoPausePending ]

Becomes(e) ==
  /\ pc' = e.pc
  /\ phase' = e.phase
  /\ site' = e.site
  /\ round' = e.round
  /\ turnIndex' = e.turnIndex
  /\ s' = e.s
  /\ consecutiveErrors' = e.consecutiveErrors
  /\ providersFirstCallDone' = e.providersFirstCallDone
  /\ trace' = e.trace
  /\ status' = e.status
  /\ inFlight' = e.inFlight
  /\ autoPausePending' = e.autoPausePending
  /\ UNCHANGED << contextVars, auxVars, config, providerConfigs, aborted, injected, abortedAt, abortPc >>

\* ------------------------------------------------------- the engine's actions
\* the host invokes runDebate
Start ==
  /\ pc = "idle"
  /\ Becomes(Run(runDebate(Engine)))

\* a sleep(500) of waitWhilePaused ends
PauseSleepOver ==
  /\ pc = "sleep500"
  /\ Becomes(Run(sleep500_over(Engine)))

\* callProvider resolves with a response
CallReturns ==
  /\ pc = "callProvider"
  /\ \E response \in Responses : Becomes(Run(callProvider_resolved(Engine, response)))

\* callProvider rejects
CallThrows ==
  /\ pc = "callProvider"
  /\ Becomes(Run(callProvider_rejected(Engine)))

\* the host resolves the promise of waitForNextTurn (its nextTurn command)
ManualAdvance ==
  /\ pc = "waitForNextTurn"
  /\ Becomes(Run(waitForNextTurn_resolved(Engine)))

\* a sleep(500) of the countdown's pause loop ends
CountdownPauseSleepOver ==
  /\ pc = "countdownSleep500"
  /\ Becomes(Run(countdownSleep500_over(Engine)))

\* a sleep(1000) of the countdown ends
CountdownSecondOver ==
  /\ pc = "sleep1000"
  /\ Becomes(Run(sleep1000_over(Engine)))

\* --------------------------------------------------- host commands (store)
HostMayAct == pc \in SuspensionPoints

engineVars == << pc, phase, site, round, turnIndex, s, consecutiveErrors,
                 providersFirstCallDone, trace, inFlight >>

pauseDebate ==
  /\ HostMayAct
  /\ status = "running"
  /\ status' = "paused"
  /\ UNCHANGED << contextVars, auxVars, config, providerConfigs, aborted, injected, engineVars,
                  autoPausePending, abortedAt, abortPc >>

resumeDebate ==
  /\ HostMayAct
  /\ status = "paused"
  /\ status' = "running"
  /\ autoPausePending' = FALSE
  /\ UNCHANGED << contextVars, auxVars, config, providerConfigs, aborted, injected, engineVars,
                  abortedAt, abortPc >>

\* the cancellation token is signalled (possibly before runDebate is invoked)
abortSignal ==
  /\ pc = "idle" \/ HostMayAct
  /\ ~aborted
  /\ aborted' = TRUE
  /\ abortedAt' = Len(trace)
  /\ abortPc' = pc
  /\ UNCHANGED << contextVars, auxVars, config, providerConfigs, status, injected, engineVars,
                  autoPausePending >>

\* stop: the host aborts the signal and leaves the running/paused states
stopDebate ==
  /\ HostMayAct
  /\ status \in {"running", "paused"}
  /\ ~aborted
  /\ aborted' = TRUE
  /\ status' = "stopped"
  /\ abortedAt' = Len(trace)
  /\ abortPc' = pc
  /\ UNCHANGED << contextVars, auxVars, config, providerConfigs, injected, engineVars, autoPausePending >>

\* the user intervenes: a message of provider 'user' enters the host's log
addUserMessage ==
  /\ HostMayAct
  /\ status \in {"running", "paused"}
  /\ injected < MaxInject
  /\ injected' = injected + 1
  /\ UNCHANGED << contextVars, auxVars, config, providerConfigs, status, aborted, engineVars,
                  autoPausePending, abortedAt, abortPc >>

Next ==
  \/ Start
  \/ PauseSleepOver
  \/ CallReturns
  \/ CallThrows
  \/ ManualAdvance
  \/ CountdownPauseSleepOver
  \/ CountdownSecondOver
  \/ pauseDebate
  \/ resumeDebate
  \/ abortSignal
  \/ stopDebate
  \/ addUserMessage

Spec == Init /\ [][Next]_vars


\* ===================================================== properties of the run
\* What a run has shown so far, read off the trace.
Idx == 1..Len(trace)
Calls == {i \in Idx : trace[i].ev = "call"}
Msgs == {i \in Idx : trace[i].ev = "message"}
Ticks == {i \in Idx : trace[i].ev = "tick"}
FailedMsgs == {i \in Msgs : trace[i].error # Undefined}
PausedReports == {i \in Idx : trace[i].ev = "status" /\ trace[i].value = "paused"}
CompletedReports == {i \in Idx : trace[i].ev = "status" /\ trace[i].value = "completed"}

\* a provider is credentialed: it has a config whose key is not blank
Credentialed(p) == providerConfigs[p] = GoodConfig(p)
AllCredentialed == \A i \in 1..Len(config.participants) : Credentialed(config.participants[i])

\* a judge is configured for a battle
JudgeConfigured == config.mode = "battle" /\ config.judgeProvider # Null

\* the rounds that were run to their end
RoundsRun == {r \in 1..config.maxRounds : r < round}

\* the host resolved the manual-advance promise while the session was paused:
\* doPacing returns false and the run ends (line 397)
ManualAdvanceWhilePaused ==
  /\ config.pacing.mode = "manual"
  /\ status = "paused"
  /\ trace # <<>>
  /\ trace[Len(trace)] = TickEv(-1)

\* C1: a round-robin run with N credentialed participants and M rounds that
\* reaches 'completed' has emitted exactly N x M messages, whichever calls failed
C1_RoundRobinMessageCount ==
  (config.mode = "roundRobin" /\ AllCredentialed /\ pc = "completed")
    => Cardinality(Msgs) = Len(config.participants) * config.maxRounds

\* a completed round-robin run of 3 participants and 2 rounds with failed calls
C1_Witness ==
  /\ config.mode = "roundRobin"
  /\ AllCredentialed
  /\ pc = "completed"
  /\ Len(config.participants) = 3
  /\ config.maxRounds = 2
  /\ Cardinality(FailedMsgs) >= 2
  /\ Cardinality(Msgs) = 6

\* the messages the judge authored in round r, and the debaters' messages
JudgeMsgs(r) ==
  {i \in Msgs : trace[i].round = r /\ trace[i].provider = config.judgeProvider}
DebaterMsgs(r) ==
  {i \in Msgs : trace[i].round = r /\ trace[i].provider # config.judgeProvider}
JudgeTurns ==
  {i \in Idx : \/ trace[i].ev = "call" /\ trace[i].value = "judge"
               \/ trace[i].ev = "message" /\ trace[i].value = "judge-evaluation"}

\* every round run to its end has exactly one judge message, after the
\* debaters' messages of the round and before the messages of later rounds
OneJudgeMessagePerRound ==
  \A r \in RoundsRun :
    /\ Cardinality(JudgeMsgs(r)) = 1
    /\ \A j \in JudgeMsgs(r) :
         /\ \A d \in DebaterMsgs(r) : d < j
         /\ \A m \in Msgs : trace[m].round > r => j < m

\* C2 as stated: in battle mode every round run to its end has exactly one
\* judge message, placed after the round's debaters and before the next round;
\* without a configured judge no judge turn is run
C2_JudgeOncePerRound ==
  /\ JudgeConfigured => OneJudgeMessagePerRound
  /\ config.judgeProvider = Null => JudgeTurns = {}

\* C2 amended: the same for a configured judge that has credentials; without a
\* configured judge, or with a judge lacking credentials, no judge turn is run
C2_JudgeOncePerRound_Credentialed ==
  /\ (JudgeConfigured /\ Credentialed(config.judgeProvider)) => OneJudgeMessagePerRound
  /\ (config.judgeProvider = Null \/ ~Credentialed(config.judgeProvider)) => JudgeTurns = {}

\* a completed battle of two rounds, each with debater messages and a judge message
C2_Witness ==
  /\ JudgeConfigured
  /\ Credentialed(config.judgeProvider)
  /\ pc = "completed"
  /\ config.maxRounds = 2
  /\ \A r \in 1..2 : Cardinality(JudgeMsgs(r)) = 1 /\ Cardinality(DebaterMsgs(r)) = 2

\* the messages and the reports 'paused' of the trace, in order
IsMessageOrPausedEv(x) == x.ev = "message" \/ (x.ev = "status" /\ x.value = "paused")
MsgsAndPauses == SelectSeq(trace, IsMessageOrPausedEv)

\* Every second consecutive failure is answered by the report 'paused' as the
\* very next event. A failed message is the second of two consecutive
\* failures when the message before it failed and no auto-pause lies between.
PausedAtSecondFailure ==
  /\ LET mp == MsgsAndPauses
     IN \A n \in 2..Len(mp) :
          ( /\ mp[n].ev = "message" /\ mp[n].error # Undefined
            /\ mp[n - 1].ev = "message" /\ mp[n - 1].error # Undefined )
            => (n < Len(mp) /\ mp[n + 1].ev = "status")
  /\ \A i \in PausedReports : i > 1 /\ trace[i - 1].ev = "message"

\* the calls and messages of the trace, in order
IsCallOrMessageEv(x) == x.ev \in {"call", "message"}
CallsAndMsgs == SelectSeq(trace, IsCallOrMessageEv)

\* two failed messages in a row, the first in round 1 and the second in round 2
FailuresAcrossRounds ==
  LET cm == CallsAndMsgs
  IN \E n \in 1..Len(cm) :
       /\ n >= 3
       /\ cm[n].ev = "message" /\ cm[n].error # Undefined /\ cm[n].round = 2
       /\ cm[n - 2].ev = "message" /\ cm[n - 2].error # Undefined /\ cm[n - 2].round = 1

\* the latest message was answered by an auto-pause
LastMsgAutoPaused ==
  LET mp == MsgsAndPauses
  IN Len(mp) >= 2 /\ mp[Len(mp)].ev = "status" /\ mp[Len(mp) - 1].ev = "message"

\* the engine waits in the waitWhilePaused that follows an auto-pause
InAutoPauseWait == pc = "sleep500" /\ site = "err"

\* C3: the second of two consecutive failed calls (debater or judge, any
\* participants, also across rounds) is followed at once by the report
\* 'paused'; until the host resumes no call is dispatched; once the engine has
\* seen the resume the failure counter is 0 and the run goes on
C3_AutoPauseAfterTwoFailures ==
  /\ PausedAtSecondFailure
  /\ autoPausePending => (inFlight = 0 /\ (InAutoPauseWait \/ pc = "returned"))
  /\ (LastMsgAutoPaused /\ ~InAutoPauseWait /\ pc # "returned") => consecutiveErrors = 0
  /\ (LastMsgAutoPaused /\ pc = "returned") => (aborted \/ ManualAdvanceWhilePaused)

\* two failures across a round boundary, an auto-pause, a resume, and the
\* next call dispatched
C3_Witness ==
  /\ pc = "callProvider"
  /\ consecutiveErrors = 0
  /\ LastMsgAutoPaused
  /\ FailuresAcrossRounds
  /\ Cardinality(PausedReports) = 1

\* C4: once the cancellation token is signalled, the engine never afterwards
\* reports onStatusChange('completed')
C4_NoCompletedAfterCancel ==
  abortedAt >= 0 => \A i \in CompletedReports : i <= abortedAt

\* C5: after a cancellation signalled during a timed countdown there is no
\* further provider call, message or countdown tick
C5_NothingAfterCancelInCountdown ==
  (abortedAt >= 0 /\ abortPc \in {"sleep1000", "countdownSleep500"})
    => \A i \in Calls \cup Msgs \cup Ticks : i <= abortedAt

\* C6: when the token is signalled before runDebate is invoked, the run invokes
\* no observer callback and makes no provider call
C6_NoCallbackWhenAlreadyCancelled ==
  (abortedAt >= 0 /\ abortPc = "idle") => trace = <<>>

\* C7: at most one provider call is in flight; between two dispatches the
\* earlier call has returned and its message has been emitted
C7_OneCallInFlight ==
  /\ inFlight <= 1
  /\ inFlight = 1 <=> pc = "callProvider"
  /\ LET cm == CallsAndMsgs
     IN \A n \in 1..(Len(cm) - 1) : cm[n].ev = "call" => cm[n + 1].ev = "message"

\* a call in flight after an auto-pause with resume and a host-injected message
C7_Witness ==
  /\ inFlight = 1
  /\ injected >= 1
  /\ PausedReports # {}
  /\ Cardinality(Calls) >= 3

\* the slots of a round: the debaters in configured order, then the judge
Debaters ==
  IF JudgeConfigured
    THEN SeqFilterOut(config.participants, config.judgeProvider)
    ELSE config.participants

\* C8: a slot whose participant has no config or a blank key gets no provider
\* call, no message and no turn-advance or loading callback, and the run
\* continues: when it completes, every credentialed slot of every round of
\* the run had its call
C8_UncredentialedSkipped ==
  /\ \A i \in Idx :
       (trace[i].ev \in {"call", "message", "loading"} /\ trace[i].provider # Null)
         => Credentialed(trace[i].provider)
  /\ pc = "completed" =>
       \A r \in RoundsRun : \A k \in 1..Len(Debaters) :
         Credentialed(Debaters[k]) =>
           \E i \in Calls : /\ trace[i].round = r
                            /\ trace[i].turnIndex = k - 1
                            /\ trace[i].provider = Debaters[k]
                            /\ trace[i].value = "debater"

\* a completed run in which a slot without credentials precedes one with
C8_Witness ==
  /\ pc = "completed"
  /\ \E k \in 1..Len(Debaters) : \E l \in 1..Len(Debaters) :
       /\ k < l
       /\ ~Credentialed(Debaters[k])
       /\ Credentialed(Debaters[l])
       /\ \E i \in Calls : trace[i].provider = Debaters[l] /\ trace[i].round = 2

\* the calls dispatched so far, in order of dispatch
IsCallEv(x) == x.ev = "call"
Slot(r, kind, k, p) == [round |-> r, kind |-> kind, turnIndex |-> k, provider |-> p]
CallSlots ==
  LET calls == SelectSeq(trace, IsCallEv)
  IN [n \in 1..Len(calls) |->
        Slot(calls[n].round, calls[n].value,
             IF calls[n].value = "judge" THEN -1 ELSE calls[n].turnIndex,
             calls[n].provider)]

\* the configured order: in each round the credentialed debaters in the order
\* of config.participants, then the judge; round r before round r + 1
RECURSIVE ExpectedDebaters(_, _)
ExpectedDebaters(r, k) ==
  IF k > Len(Debaters) THEN <<>>
  ELSE (IF Credentialed(Debaters[k]) THEN << Slot(r, "debater", k - 1, Debaters[k]) >> ELSE <<>>)
       \o ExpectedDebaters(r, k + 1)

ExpectedJudge(r) ==
  IF JudgeConfigured /\ Credentialed(config.judgeProvider)
    THEN << Slot(r, "judge", -1, config.judgeProvider) >>
    ELSE <<>>

RECURSIVE ExpectedCalls(_, _)
ExpectedCalls(r, last) ==
  IF r > last THEN <<>>
  ELSE ExpectedDebaters(r, 1) \o ExpectedJudge(r) \o ExpectedCalls(r + 1, last)

IsPrefix(a, b) == Len(a) <= Len(b) /\ SubSeq(b, 1, Len(a)) = a

\* C9: calls are dispatched in configured participant order within a round
\* (uncredentialed slots omitted), round by round, the judge after every
\* debater of its round and before the next round: the calls dispatched are
\* always a prefix of the configured order, and all of it when the run completes
C9_TurnOrder ==
  /\ IsPrefix(CallSlots, ExpectedCalls(1, config.maxRounds))
  /\ pc = "completed" => CallSlots = ExpectedCalls(1, round - 1)

\* a completed battle of two rounds with three calls in each round
C9_Witness ==
  /\ pc = "completed"
  /\ JudgeConfigured
  /\ config.maxRounds = 2
  /\ Cardinality(Calls) = 6
  /\ \E i \in Calls : trace[i].value = "judge" /\ trace[i].round = 1

\* calls and messages alternate, beginning with a call: every call but the
\* last has exactly one message, the last one at most one
CallsAndMsgsAlternate ==
  LET cm == CallsAndMsgs
  IN \A n \in 1..Len(cm) : cm[n].ev = (IF n % 2 = 1 THEN "call" ELSE "message")

\* C10: a call that returns stopReason 'error' yields exactly one message whose
\* error field is the returned failure text, a successful call yields exactly
\* one message without error field, and a failed call never ends the run: after
\* a failed message the engine goes on to the auto-pause or to the pacing of the
\* next turn, and the run returns early only on cancellation or when the host
\* advances a manual wait while the session is paused
C10_FailureBecomesMessage ==
  /\ \A m \in Msgs :
       \E response \in Responses :
         /\ trace[m].content = response.content
         /\ trace[m].error = (IF response.stopReason = "error" THEN response.content ELSE Undefined)
  /\ CallsAndMsgsAlternate
  /\ Len(CallsAndMsgs) % 2 = 1 => (pc = "callProvider" \/ aborted \/ pc = "rejected")
  /\ \A m \in FailedMsgs :
       IF m < Len(trace)
         THEN trace[m + 1] = StatusEv("paused") \/ trace[m + 1].ev = "tick"
         ELSE pc = "countdownSleep500" \/ (pc = "returned" /\ aborted)
  /\ pc = "returned" => (aborted \/ ManualAdvanceWhilePaused)

\* a completed run whose first call failed and whose later calls succeeded
C10_Witness ==
  /\ pc = "completed"
  /\ ~aborted
  /\ Cardinality(FailedMsgs) = 1
  /\ Cardinality(Msgs) >= 3
  /\ \E m \in FailedMsgs : (\A k \in Msgs : m <= k) /\ trace[m].error = "request failed"

\* the status reports of the trace, in order
IsStatusEv(x) == x.ev = "status"
StatusReports == SelectSeq(trace, IsStatusEv)

\* C11: when the provider call itself throws (its promise rejects), the run
\* stops without a further turn and the engine's last callback is an
\* onStatusChange that reports a failed terminal state
C11_ThrowReportsFailedState ==
  pc = "rejected" =>
    /\ inFlight = 0
    /\ trace # <<>>
    /\ trace[Len(trace)].ev = "status"
    /\ trace[Len(trace)].value \notin {"running", "paused", "completed"}

\* C12: the engine reports 'paused' only right after a failed message whose
\* predecessor among the messages also failed (no success in between); a run
\* whose failures are all isolated never reports 'paused', and when such a
\* run of N credentialed round-robin participants completes it has emitted
\* N x M messages
C12_PausedOnlyAfterTwoFailures ==
  /\ LET mp == MsgsAndPauses
     IN \A n \in 1..Len(mp) :
          mp[n].ev = "status" =>
            /\ n >= 3
            /\ mp[n - 1].ev = "message" /\ mp[n - 1].error # Undefined
            /\ mp[n - 2].ev = "message" /\ mp[n - 2].error # Undefined
  /\ \A i \in PausedReports : trace[i - 1].ev = "message" /\ trace[i - 1].error # Undefined
  /\ LET cm == MsgsAndPauses
     IN (\A n \in 1..(Len(cm) - 1) : cm[n].error = Undefined \/ cm[n + 1].error = Undefined)
          => /\ PausedReports = {}
             /\ ~autoPausePending
             /\ (pc = "returned" => (aborted \/ ManualAdvanceWhilePaused))

\* 3 credentialed participants, 2 rounds, one failed call in round 1: six
\* messages, one of them with an error marker, no 'paused', 'completed'
C12_Witness ==
  /\ config.mode = "roundRobin"
  /\ Len(config.participants) = 3
  /\ AllCredentialed
  /\ config.maxRounds = 2
  /\ pc = "completed"
  /\ status = "completed"
  /\ Cardinality(Msgs) = 6
  /\ Cardinality(FailedMsgs) = 1
  /\ \A m \in FailedMsgs : trace[m].round = 1
  /\ PausedReports = {}

\* the number of failed messages at the end of a sequence of events
RECURSIVE TrailingFailures(_)
TrailingFailures(seq) ==
  IF seq = <<>> THEN 0
  ELSE IF seq[Len(seq)].ev = "message" /\ seq[Len(seq)].error # Undefined
    THEN 1 + TrailingFailures(SubSeq(seq, 1, Len(seq) - 1))
    ELSE 0

\* C13: the failure counter is a function of the calls' outcomes alone: it is
\* the number of failed messages since the last successful message or
\* auto-pause (2 while the auto-pause waits, 0 once it was resumed), whatever
\* slots were skipped in between; so a skip neither increments nor resets it,
\* and two failed calls with only skipped slots between them are answered by
\* the report 'paused'
C13_SkipLeavesCounter ==
  LET mp == MsgsAndPauses
  IN /\ IF mp # <<>> /\ mp[Len(mp)].ev = "status"
          THEN /\ consecutiveErrors \in {0, PauseThreshold}
               /\ InAutoPauseWait => consecutiveErrors = PauseThreshold
               /\ pc \notin {"sleep500", "returned"} => consecutiveErrors = 0
          ELSE consecutiveErrors = TrailingFailures(mp)
     /\ \A n \in 2..Len(mp) :
          ( /\ mp[n].ev = "message" /\ mp[n].error # Undefined
            /\ mp[n - 1].ev = "message" /\ mp[n - 1].error # Undefined )
            => (n < Len(mp) /\ mp[n + 1] = StatusEv("paused"))

\* two failed calls of one round with a skipped slot between them, answered
\* by the report 'paused'
C13_Witness ==
  /\ config.participants = <<"gemini", "openai", "anthropic">>
  /\ config.mode = "roundRobin"
  /\ ~Credentialed("openai")
  /\ LET mp == MsgsAndPauses
     IN /\ Len(mp) = 3
        /\ mp[1].provider = "gemini" /\ mp[1].error # Undefined /\ mp[1].round = 1
        /\ mp[2].provider = "anthropic" /\ mp[2].error # Undefined /\ mp[2].round = 1
        /\ mp[3] = StatusEv("paused")
  /\ consecutiveErrors = PauseThreshold

\* C14: every step that dispatches a provider call ends, with the call just
\* dispatched, in a state whose session status is 'running' and whose
\* cancellation token is not signalled: no call is dispatched while the
\* session is paused, by the host or by the failure threshold
C14_NoDispatchWhilePaused ==
  [][ inFlight' > inFlight => (status' = "running" /\ ~aborted') ]_vars

\* after an auto-pause that was resumed, the host has paused again and the
\* engine is held in the wait that precedes the next dispatch
C14_Witness ==
  /\ pc = "sleep500"
  /\ site = "pre"
  /\ status = "paused"
  /\ PausedReports # {}
  /\ ~autoPausePending
  /\ inFlight = 0

\* ------------------------------------------------ runs that are never cancelled
\* the host resumes a session whose run has already returned
resumeAfterReturn ==
  /\ pc \in Terminal
  /\ status = "paused"
  /\ status' = "running"
  /\ UNCHANGED << contextVars, auxVars, config, providerConfigs, aborted, injected, engineVars,
                  autoPausePending, abortedAt, abortPc >>

\* no cancellation, no stop, no provider call that throws
NextUncancelled ==
  \/ Start
  \/ PauseSleepOver
  \/ CallReturns
  \/ ManualAdvance
  \/ CountdownPauseSleepOver
  \/ CountdownSecondOver
  \/ pauseDebate
  \/ resumeDebate
  \/ resumeAfterReturn

\* one wake-up of the engine: at each position exactly one of them is possible
EngineStep ==
  \/ Start
  \/ PauseSleepOver
  \/ CallReturns
  \/ ManualAdvance
  \/ CountdownPauseSleepOver
  \/ CountdownSecondOver

\* the host resumes a paused session
HostResume == resumeDebate \/ resumeAfterReturn

\* timers fire, every call returns, every manual-advance wait is signalled
\* and the engine's polls are not starved by a host that pauses again before
\* each of them (strong fairness of the engine); every pause is followed by a
\* resume (weak fairness of the resume, which stays possible while paused)
SpecUncancelled ==
  /\ Init
  /\ [][NextUncancelled]_vars
  /\ SF_vars(EngineStep)
  /\ WF_vars(HostResume)

\* C15: a run that is never cancelled or stopped, whose calls return, whose
\* pauses are resumed and whose manual waits are signalled eventually reports
\* onStatusChange('completed')
C15_PausedRunCompletes == <>(pc = "completed" /\ status = "completed")

\* the manual waits of the trace: the positions of the awaiting-next tick
ManualWaits == {i \in Idx : trace[i] = TickEv(-1)}

\* a manual wait emits one awaiting-next tick and nothing else until the host
\* signals; an advancement that lets the run continue is reported by tick 0
ManualTicksWellFormed ==
  /\ config.pacing.mode = "manual" => \A i \in Ticks : trace[i].n \in {-1, 0}
  /\ config.pacing.mode # "manual" => ManualWaits = {}
  /\ \A i \in Ticks : trace[i].n = -1 => trace[i - 1].ev \in {"message", "status"}
  /\ config.pacing.mode = "manual" =>
       \A i \in Ticks : trace[i].n = 0 => trace[i - 1] = TickEv(-1)

\* a cancellation signalled while the engine waits for the advancement makes
\* the wait return false: the run returns with no further callback
CancelledManualWaitReturns ==
  (abortedAt >= 0 /\ abortPc = "waitForNextTurn" /\ pc # "waitForNextTurn")
    => (pc = "returned" /\ Len(trace) = abortedAt)

CountdownPoints == {"sleep1000", "countdownSleep500"}

\* the ticks of a timed wait are D, D-1, ..., 1, 0 in that order with no other
\* callback between them; a countdown that has not reached 0 is in one of
\* its sleeps or has returned
TimedTicksWellFormed ==
  config.pacing.mode = "auto" =>
    \A i \in Ticks :
      /\ trace[i].n \in 0..config.pacing.autoDelaySeconds
      /\ trace[i].n = (IF trace[i - 1].ev = "tick"
                         THEN trace[i - 1].n - 1
                         ELSE config.pacing.autoDelaySeconds)
      /\ trace[i].n > 0 =>
           IF i < Len(trace)
             THEN trace[i + 1] = TickEv(trace[i].n - 1)
             ELSE pc \in CountdownPoints \cup {"returned"}

\* a cancellation signalled during a countdown makes the wait return false:
\* the run returns with no further callback
CancelledCountdownReturns ==
  (abortedAt >= 0 /\ abortPc \in CountdownPoints /\ pc \notin CountdownPoints)
    => (pc = "returned" /\ Len(trace) = abortedAt)

\* C17: a timed wait with delay D that is not cancelled or interrupted emits
\* the ticks D, D-1, ..., 1, then a single tick 0, and returns true; on
\* cancellation it returns false
C17_TimedCountdown ==
  /\ TimedTicksWellFormed
  /\ CancelledCountdownReturns

\* C18: in timed pacing a step of the engine that begins while the session is
\* 'paused' emits no countdown tick of any value, the final 0 included, and
\* every tick a step emits continues the countdown where it stood: it is one
\* less than the tick before it, or D when it opens a countdown
C18_CountdownSuspendedWhilePaused ==
  [][ config.pacing.mode = "auto" =>
        \A i \in (Len(trace) + 1)..Len(trace') :
          trace'[i].ev = "tick" =>
            /\ status # "paused"
            /\ trace'[i].n = (IF trace'[i - 1].ev = "tick"
                                THEN trace'[i - 1].n - 1
                                ELSE config.pacing.autoDelaySeconds) ]_vars

\* ====================================================== the context builders
\* buildApiMessages and buildJudgeApiMessages are pure functions of the log.
\* A text is kept as its parts (kind, label, judge tag, round, body) instead of
\* the concatenated string; an ApiMessage is (role, text, blocks): its content
\* is the text alone when there are no blocks, else the text block followed
\* by the blocks.

MaxLog == 32

DebaterWindow == 15
JudgeWindow == 20

\* files: a mime type (type, subtype) and a data URL split at its commas
ImageFile == [mimeType |-> <<"image", "png">>, dataUrl |-> <<"data:image/png;base64", "iVBOR">>]
PdfFile == [mimeType |-> <<"application", "pdf">>, dataUrl |-> <<"data:application/pdf;base64", "JVBER">>]
TextFile == [mimeType |-> <<"text", "plain">>, dataUrl |-> <<"data:text/plain;base64", "aGVsbG8">>]
BareFile == [mimeType |-> <<"image", "gif">>, dataUrl |-> <<"nodata">>]

\* the display names of the providers
PROVIDER_LABELS(p) ==
  CASE p = "openai" -> "GPT"
    [] p = "anthropic" -> "Claude"
    [] p = "gemini" -> "Gemini"

\* faulty variant: the log is not truncated
slice_untruncated(seq, n) == seq

\* Array.prototype.slice(-n): the last n elements
slice(seq, n) ==
  IF Len(seq) <= n THEN seq ELSE SubSeq(seq, Len(seq) - n + 1, Len(seq))

\* lines 274-285
isSupportedFile(file) ==
  file.mimeType[1] = "image" \/ file.mimeType = <<"application", "pdf">>

buildFileBlock(file) ==
  [ type |-> IF file.mimeType[1] = "image" THEN "image" ELSE "document",
    mimeType |-> file.mimeType,
    data |-> IF Len(file.dataUrl) >= 2 THEN file.dataUrl[2] ELSE "" ]

buildFileBlocks(files) ==
  LET kept == SelectSeq(files, isSupportedFile)
  IN [i \in 1..Len(kept) |-> buildFileBlock(kept[i])]

Text(kind, label, tag, r, body) ==
  [kind |-> kind, label |-> label, judgeTag |-> tag, round |-> r, body |-> body]

ApiMessage(role, text, blocks) == [role |-> role, text |-> text, blocks |-> blocks]

\* faulty variant: a judge's evaluation is passed on without its marker
debaterEntry_noJudgeTag(msg, index, currentProvider_, fileBlocks) ==
  IF msg.provider = currentProvider_
    THEN ApiMessage("assistant", Text("own", "", "", 0, msg.content), <<>>)
    ELSE ApiMessage("user",
           Text("incoming",
                IF msg.provider = "user" THEN "User" ELSE PROVIDER_LABELS(msg.provider),
                "", 0, msg.content),
           (IF index = 0 THEN fileBlocks ELSE <<>>) \o buildFileBlocks(msg.files))

\* lines 312-337: one windowed message as the debater's builder maps it
debaterEntry(msg, index, currentProvider_, fileBlocks) ==
  IF msg.provider = currentProvider_
    THEN ApiMessage("assistant", Text("own", "", "", 0, msg.content), <<>>)
    ELSE ApiMessage("user",
           Text("incoming",
                IF msg.provider = "user" THEN "User" ELSE PROVIDER_LABELS(msg.provider),
                IF msg.messageType = "judge-evaluation" THEN "judge-evaluation" ELSE "",
                0, msg.content),
           (IF index = 0 THEN fileBlocks ELSE <<>>) \o buildFileBlocks(msg.files))

\* faulty variant: an empty log is mapped like any other, to an empty context
buildApiMessages_noOpening(allMessages, currentProvider_, referenceFiles, isFirstCall, isArtworkMode_) ==
  LET recent == slice(allMessages, DebaterWindow)
      fileBlocks == IF isFirstCall /\ Len(referenceFiles) > 0
                      THEN buildFileBlocks(referenceFiles)
                      ELSE <<>>
  IN [i \in 1..Len(recent) |->
        debaterEntry(recent[i], i - 1, currentProvider_, fileBlocks)]

\* lines 289-338
buildApiMessages(allMessages, currentProvider_, referenceFiles, isFirstCall, isArtworkMode_) ==
  LET recent == slice(allMessages, DebaterWindow)
      fileBlocks == IF isFirstCall /\ Len(referenceFiles) > 0
                      THEN buildFileBlocks(referenceFiles)
                      ELSE <<>>
  IN IF Len(recent) = 0
       THEN << ApiMessage("user",
                 Text(IF isArtworkMode_ THEN "opening-artwork" ELSE "opening-topic",
                      "", "", 0, 0),
                 fileBlocks) >>
       ELSE [i \in 1..Len(recent) |->
               debaterEntry(recent[i], i - 1, currentProvider_, fileBlocks)]

\* line 348: the messages the judge's context is built from
isRelevantToJudge(msg, judgeProvider) ==
  msg.provider # judgeProvider \/ msg.messageType = "judge-evaluation"

relevantMessages(allMessages, judgeProvider) ==
  LET keep(msg) == isRelevantToJudge(msg, judgeProvider)
  IN SelectSeq(allMessages, keep)

\* lines 355-368
judgeEntry(msg, judgeProvider) ==
  IF msg.provider = judgeProvider
    THEN ApiMessage("assistant", Text("own", "", "", 0, msg.content), <<>>)
    ELSE ApiMessage("user",
           Text("incoming-round",
                IF msg.provider = "user" THEN "User" ELSE PROVIDER_LABELS(msg.provider),
                "", msg.round, msg.content),
           <<>>)

\* line 372: the number of debater statements of the round, or -1 when the
\* request carries no such note
debatersDone(allMessages, currentRound, judgeProvider) ==
  IF currentRound = allMessages[1].round THEN -1
  ELSE LET spoke(m) == m.round = currentRound /\ m.provider # judgeProvider
                       /\ m.provider # "user"
       IN Len(SelectSeq(allMessages, spoke))

\* lines 342-376
buildJudgeApiMessages(allMessages, currentRound, judgeProvider) ==
  LET recent == slice(relevantMessages(allMessages, judgeProvider), JudgeWindow)
  IN IF Len(recent) = 0
       THEN << ApiMessage("user", Text("evaluate-empty", "", "", currentRound, 0), <<>>) >>
       ELSE [i \in 1..Len(recent) |-> judgeEntry(recent[i], judgeProvider)]
            \o << ApiMessage("user",
                    Text("evaluate-round", "", "", currentRound,
                         debatersDone(allMessages, currentRound, judgeProvider)),
                    <<>>) >>

\* ---- the logs the builders are applied to
\* A log repeats one of these turn patterns round after round; the content of
\* the i-th message is i.
Turn(provider, messageType, files) ==
  [provider |-> provider, messageType |-> messageType, files |-> files]

LogPatterns ==
  { << Turn("openai", Undefined, <<>>), Turn("anthropic", Undefined, <<>>) >>,
    << Turn("gemini", Undefined, <<>>), Turn("openai", Undefined, <<>>),
       Turn("anthropic", "judge-evaluation", <<>>) >>,
    << Turn("openai", Undefined, <<>>), Turn("user", Undefined, <<ImageFile, TextFile>>),
       Turn("gemini", Undefined, <<>>), Turn("anthropic", "judge-evaluation", <<>>) >>,
    << Turn("user", Undefined, <<PdfFile, BareFile>>),
       Turn("openai", "artwork-critique", <<>>),
       Turn("anthropic", "artwork-critique", <<>>) >> }

LogEntry(pattern, i) ==
  LET turn == pattern[((i - 1) % Len(pattern)) + 1]
  IN [ provider |-> turn.provider,
       content |-> i,
       round |-> ((i - 1) \div Len(pattern)) + 1,
       messageType |-> turn.messageType,
       files |-> turn.files ]

FollowsPattern(messages, pattern) ==
  \A i \in 1..Len(messages) : messages[i] = LogEntry(pattern, i)

ReferenceFileChoices == { <<>>, <<ImageFile, TextFile>> }

\* the run's variables while only the builders are exercised
ContextConfig ==
  [ mode |-> "battle", participants |-> <<"gemini", "openai", "anthropic">>,
    judgeProvider |-> "anthropic", maxRounds |-> 1,
    pacing |-> [mode |-> "manual", autoDelaySeconds |-> MaxDelay],
    artworkSubMode |-> "multiAiDiscussion" ]

InitContext ==
  /\ Init
  /\ config = ContextConfig
  /\ providerConfigs = [p \in Providers |-> GoodConfig(p)]

runVars == << config, providerConfigs, status, aborted, injected, pc, phase, site,
              round, turnIndex, s, consecutiveErrors, providersFirstCallDone,
              trace, inFlight, autoPausePending, abortedAt, abortPc >>

\* a message enters the log; the context built for the call before it is gone
AppendMessage ==
  /\ Len(log) < MaxLog
  /\ \E pattern \in LogPatterns :
       /\ FollowsPattern(log, pattern)
       /\ log' = Append(log, LogEntry(pattern, Len(log) + 1))
  /\ apiMessages' = <<>>
  /\ builtFor' = NoBuild
  /\ UNCHANGED << runVars, auxVars >>

\* lines 505-513: the context of a debater's call is built
BuildDebaterContext ==
  /\ \E p \in Providers, first \in BOOLEAN, artwork \in BOOLEAN,
        files \in ReferenceFileChoices :
       /\ apiMessages' = buildApiMessages(log, p, files, first, artwork)
       /\ builtFor' = [ builder |-> "debater", provider |-> p, isFirstCall |-> first,
                        isArtworkMode |-> artwork, referenceFiles |-> files,
                        currentRound |-> 0 ]
  /\ UNCHANGED << log, runVars, auxVars >>

\* lines 578-582: the context of a judge's call is built
BuildJudgeContext ==
  /\ \E judge \in Providers, r \in 1..MaxRounds :
       /\ apiMessages' = buildJudgeApiMessages(log, r, judge)
       /\ builtFor' = [ builder |-> "judge", provider |-> judge, isFirstCall |-> FALSE,
                        isArtworkMode |-> FALSE, referenceFiles |-> <<>>,
                        currentRound |-> r ]
  /\ UNCHANGED << log, runVars, auxVars >>

NextContext ==
  \/ AppendMessage
  \/ BuildDebaterContext
  \/ BuildJudgeContext

SpecContext == InitContext /\ [][NextContext]_vars

\* the bodies (contents of log messages) a context shows, and the log
\* messages eligible for the builder that built it
VisibleBodies ==
  {apiMessages[i].text.body : i \in {j \in 1..Len(apiMessages) :
      apiMessages[j].text.kind \in {"own", "incoming", "incoming-round"}}}

EligibleMessages ==
  IF builtFor.builder = "judge" THEN relevantMessages(log, builtFor.provider) ELSE log

\* C19: a debater's context has at most 15 messages, a judge's context at
\* most twice that, 30
C19_ContextBounded ==
  /\ builtFor.builder = "debater" => Len(apiMessages) <= DebaterWindow
  /\ builtFor.builder = "judge" => Len(apiMessages) <= 2 * DebaterWindow

\* a debater's context of exactly 15 messages built from a log of more than 30
C19_Witness ==
  /\ builtFor.builder = "debater"
  /\ Len(log) > 2 * DebaterWindow
  /\ Len(apiMessages) = DebaterWindow

\* C20: the judge's context is built from the last 2 x 15 = 30 eligible
\* messages of the log: every one of them is visible to the judge
C20_JudgeWindowDoubled ==
  builtFor.builder = "judge" =>
    LET last == slice(EligibleMessages, 2 * DebaterWindow)
    IN \A i \in 1..Len(last) : last[i].content \in VisibleBodies

\* the log messages a context is built from: the trailing window of the
\* eligible messages
WindowedMessages ==
  slice(EligibleMessages,
        IF builtFor.builder = "judge" THEN JudgeWindow ELSE DebaterWindow)

\* the evaluations of the log were authored by the judge the context is for
\* (the engine emits 'judge-evaluation' only in the judge's turn)
EvaluationsAreTheJudges ==
  \A i \in 1..Len(log) :
    log[i].messageType = "judge-evaluation" => log[i].provider = builtFor.provider

\* the speaker labels an incoming message may carry
SpeakerLabel(provider) ==
  IF provider = "user" THEN "User" ELSE PROVIDER_LABELS(provider)

\* C21: in a context built for P from a non-empty window, the i-th entry
\* renders the i-th windowed message: authored by P it has the role
\* 'assistant', otherwise the role 'user' and the speaker's label; an incoming
\* judge-evaluation carries the evaluation marker
C21_RolesAndLabels ==
  (builtFor.builder # "none" /\ WindowedMessages # <<>>
     /\ (builtFor.builder = "judge" => EvaluationsAreTheJudges)) =>
    LET recent == WindowedMessages
    IN /\ Len(apiMessages) >= Len(recent)
       /\ \A i \in 1..Len(recent) :
            /\ apiMessages[i].text.body = recent[i].content
            /\ IF recent[i].provider = builtFor.provider
                 THEN apiMessages[i].role = "assistant"
                 ELSE /\ apiMessages[i].role = "user"
                      /\ apiMessages[i].text.label = SpeakerLabel(recent[i].provider)
                      /\ apiMessages[i].text.label # ""
                      /\ recent[i].messageType = "judge-evaluation"
                           => apiMessages[i].text.judgeTag # ""

\* a debater's context with an own message, a moderator's message and a
\* judge's evaluation with its marker
C21_Witness ==
  /\ builtFor.builder = "debater"
  /\ Len(log) > DebaterWindow
  /\ \E i \in 1..Len(apiMessages) : apiMessages[i].role = "assistant"
  /\ \E i \in 1..Len(apiMessages) : apiMessages[i].text.label = "User"
  /\ \E i \in 1..Len(apiMessages) :
       apiMessages[i].role = "user" /\ apiMessages[i].text.judgeTag # ""

\* C22: no builder returns an empty context; for an empty log the context is
\* exactly one opening instruction in the role 'user': the artwork variant
\* in artwork mode, the round-evaluation request for the judge
C22_NeverEmpty ==
  builtFor.builder # "none" =>
    /\ Len(apiMessages) >= 1
    /\ log = <<>> =>
         /\ Len(apiMessages) = 1
         /\ apiMessages[1].role = "user"
         /\ apiMessages[1].text.kind =
              (IF builtFor.builder = "judge" THEN "evaluate-empty"
               ELSE IF builtFor.isArtworkMode THEN "opening-artwork"
               ELSE "opening-topic")

\* the artwork opening built for an empty log
C22_Witness ==
  /\ builtFor.builder = "debater"
  /\ builtFor.isArtworkMode
  /\ log = <<>>
  /\ Len(apiMessages) = 1
  /\ apiMessages[1].text.kind = "opening-artwork"

\* a file of a supported kind (image or PDF) appears among the blocks
CarriesFile(blocks, file) ==
  \E k \in 1..Len(blocks) :
    blocks[k].mimeType = file.mimeType /\ blocks[k].data = file.dataUrl[Len(file.dataUrl)]

\* C24: the image and PDF attachments of every windowed incoming message are
\* carried in the entry that renders it, for debater and judge calls alike
C24_MessageFilesCarried ==
  (builtFor.builder # "none" /\ WindowedMessages # <<>>) =>
    LET recent == WindowedMessages
    IN \A i \in 1..Len(recent) :
         recent[i].provider # builtFor.provider =>
           \A f \in 1..Len(recent[i].files) :
             ( /\ recent[i].files[f].mimeType[1] \in {"image", "application"}
               /\ Len(recent[i].files[f].dataUrl) >= 2 )
               => ( /\ i <= Len(apiMessages)
                    /\ CarriesFile(apiMessages[i].blocks, recent[i].files[f]) )

\* ---- properties of whole runs (specification Spec)
IsMessageEv(x) == x.ev = "message"
IsRoundEv(x) == x.ev = "round"

\* the engine's messages in the order of onMessage
MessageLog == SelectSeq(trace, IsMessageEv)

\* the cursor reports in the order of onRoundChange
CursorReports == SelectSeq(trace, IsRoundEv)

\* what getMessages() returns at the i-th event when nobody intervened: the
\* messages the engine has emitted so far
LogBefore(i) == SelectSeq(SubSeq(trace, 1, i - 1), IsMessageEv)

\* lines 296-337: the call at event i is made with isFirstCall and the
\* reference files (if the session has any) find a place in its context: the
\* opening message of an empty log, or a first windowed message that is not
\* the caller's own
CarriesReferenceFiles(i) ==
  /\ trace[i].ev = "call"
  /\ trace[i].value = "debater"
  /\ trace[i].content = "first-call"
  /\ LET recent == slice(LogBefore(i), DebaterWindow)
     IN recent = <<>> \/ recent[1].provider # trace[i].provider

\* C23: a call of participant P that follows an earlier call of P in the run
\* carries no reference files, also when the earlier call failed
C23_ReferenceFilesOnce ==
  injected = 0 =>
    \A i \in Calls : \A j \in Calls :
      (i < j /\ trace[i].provider = trace[j].provider) => ~CarriesReferenceFiles(j)

\* C25: in a battle with a judge, a message is typed 'judge-evaluation'
\* exactly when it is the judge's (failed or not), it answers a judge call
\* exactly then, and the judge is never called as a debater
C25_JudgeEvaluationIffJudgeTurn ==
  JudgeConfigured =>
    /\ \A m \in Msgs :
         trace[m].value = "judge-evaluation" <=> trace[m].provider = config.judgeProvider
    /\ \A c \in Calls :
         trace[c].value = "judge" <=> trace[c].provider = config.judgeProvider
    /\ \A k \in 1..Len(CallsAndMsgs) :
         CallsAndMsgs[k].ev = "message" =>
           /\ k > 1
           /\ CallsAndMsgs[k-1].ev = "call"
           /\ CallsAndMsgs[k-1].provider = CallsAndMsgs[k].provider
           /\ CallsAndMsgs[k-1].value = "judge"
                <=> CallsAndMsgs[k].value = "judge-evaluation"

\* a one-round battle of A, B and the judge J, completed: two debater
\* messages, then the judge's evaluation, which failed
C25_Witness ==
  /\ JudgeConfigured
  /\ config.participants = <<"gemini", "openai", "anthropic">>
  /\ config.maxRounds = 1
  /\ pc = "completed"
  /\ Len(MessageLog) = 3
  /\ MessageLog[1].provider = "gemini" /\ MessageLog[1].value # "judge-evaluation"
  /\ MessageLog[2].provider = "openai" /\ MessageLog[2].value # "judge-evaluation"
  /\ MessageLog[3].provider = "anthropic" /\ MessageLog[3].value = "judge-evaluation"
  /\ MessageLog[3].error # Undefined

\* the artwork sub-modes in which every participant evaluates once
SingleRound ==
  config.mode = "artworkEval"
    /\ config.artworkSubMode \in {"roleBasedIndividual", "scoreFeedback"}

\* the rounds the claim expects of the session
ClaimedRounds == IF SingleRound THEN 1 ELSE config.maxRounds

\* C26: every cursor report, call and message lies in the rounds 1..R, where
\* R is 1 in the artwork sub-modes roleBasedIndividual and scoreFeedback and
\* maxRounds otherwise; a completed run has gone through all R rounds, each
\* credentialed debater being called in each of them
C26_RoundsPerformed ==
  /\ \A i \in Idx :
       trace[i].ev \in {"round", "call", "message"} => trace[i].round \in 1..ClaimedRounds
  /\ pc = "completed" =>
       /\ round = ClaimedRounds + 1
       /\ \A r \in 1..ClaimedRounds :
            \A k \in 1..Len(turnParticipants) :
              Credentialed(turnParticipants[k]) =>
                \E c \in Calls : /\ trace[c].round = r
                                 /\ trace[c].provider = turnParticipants[k]
                                 /\ trace[c].value = "debater"

\* a completed artwork session with maxRounds 2 in an individual sub-mode
C26_Witness ==
  /\ config.mode = "artworkEval"
  /\ config.artworkSubMode = "roleBasedIndividual"
  /\ config.maxRounds = 2
  /\ pc = "completed"
  /\ Len(MessageLog) = Len(config.participants)
  /\ \A k \in 1..Len(MessageLog) : MessageLog[k].round = 1

\* C27: the first callback of a run reports 'running'; every later status
\* report is 'paused' or 'completed'; 'completed' is the last callback
C27_StatusSequence ==
  /\ trace # <<>> => trace[1] = StatusEv("running")
  /\ StatusReports # <<>> => StatusReports[1].value = "running"
  /\ \A k \in 2..Len(StatusReports) : StatusReports[k].value \in {"paused", "completed"}
  /\ \A i \in Idx : trace[i] = StatusEv("completed") => i = Len(trace)

\* a run that auto-paused twice and completed
C27_Witness ==
  /\ Len(StatusReports) = 4
  /\ StatusReports[1].value = "running"
  /\ StatusReports[2].value = "paused"
  /\ StatusReports[3].value = "paused"
  /\ StatusReports[4].value = "completed"
  /\ FailedMsgs # {}

\* C28: the reported (round, turn index) pairs increase strictly in
\* lexicographic order, and the rounds of the messages never decrease
C28_CursorMonotone ==
  /\ \A k \in 1..(Len(CursorReports) - 1) :
       \/ CursorReports[k].round < CursorReports[k+1].round
       \/ /\ CursorReports[k].round = CursorReports[k+1].round
          /\ CursorReports[k].turnIndex < CursorReports[k+1].turnIndex
  /\ \A k \in 1..(Len(MessageLog) - 1) : MessageLog[k].round <= MessageLog[k+1].round

\* a completed run of two rounds whose cursor went (1,0), (1,1), (2,0), (2,1)
C28_Witness ==
  /\ pc = "completed"
  /\ Len(CursorReports) = 4
  /\ CursorReports[2].round = 1 /\ CursorReports[2].turnIndex = 1
  /\ CursorReports[3].round = 2 /\ CursorReports[3].turnIndex = 0
  /\ Len(MessageLog) = 4

\* ------------------------------------------------------- the system prompts
\* A prompt is modelled by its sections in order: [kind, detail], the detail
\* being the values the template interpolates. Texts are sequences of
\* characters, so that trim() is computed.
Section(kind, detail) == [kind |-> kind, detail |-> detail]

PromptModes ==
  {"roundRobin", "freeDiscussion", "roleAssignment", "battle", "artworkEval"}

\* config.roles.find((r) => r.provider === currentProvider)?.role
roleOf(cfg, currentProvider_) ==
  IF \E i \in 1..Len(cfg.roles) : cfg.roles[i].provider = currentProvider_
    THEN cfg.roles[CHOOSE i \in 1..Len(cfg.roles) :
                     /\ cfg.roles[i].provider = currentProvider_
                     /\ \A j \in 1..(i - 1) : cfg.roles[j].provider # currentProvider_].role
    ELSE Undefined

\* ---- the role tables of '@/types', read through src/lib/roleHelpers.ts.
\* The labels are Korean in the source and are romanised here: "jungrip" is
\* the label of 'neutral', "chanseong" the label of 'pro', "misul
\* bipyeongga" the label of the artwork role 'critic'. The role selects of
\* TopicInput and ArtworkInput store the label in RoleConfig.role.
ROLE_OPTIONS ==
  { [value |-> "neutral", label |-> "jungrip"],
    [value |-> "pro", label |-> "chanseong"] }

ROLE_DESCRIPTIONS(value) ==
  CASE value = "neutral" -> "description of neutral"
    [] value = "pro" -> "description of pro"
    [] OTHER -> Undefined

ARTWORK_ROLE_OPTIONS ==
  { [value |-> "critic", label |-> "misul bipyeongga"] }

ARTWORK_ROLE_DESCRIPTIONS(value) ==
  CASE value = "critic" -> "description of critic"
    [] OTHER -> Undefined

\* a || b of two strings, where undefined and '' are falsy
orElse(a, b) == IF a = Undefined \/ a = "" THEN b ELSE a

\* OPTIONS.find((r) => r.label === roleLabel)?.value
valueOfLabel(options, roleLabel) ==
  IF \E r \in options : r.label = roleLabel
    THEN (CHOOSE r \in options : r.label = roleLabel).value
    ELSE Undefined

\* roleHelpers.ts lines 41-43
getRoleDescription(roleValue) == orElse(ROLE_DESCRIPTIONS(roleValue), "")

\* roleHelpers.ts lines 50-52
getRoleLabel(roleValue) ==
  IF \E r \in ROLE_OPTIONS : r.value = roleValue
    THEN (CHOOSE r \in ROLE_OPTIONS : r.value = roleValue).label
    ELSE "jungrip"

\* roleHelpers.ts lines 76-78
getArtworkRoleDescription(roleValue) == orElse(ARTWORK_ROLE_DESCRIPTIONS(roleValue), "")

\* roleHelpers.ts lines 84-86
getArtworkRoleValue(roleLabel) ==
  orElse(valueOfLabel(ARTWORK_ROLE_OPTIONS, roleLabel), "critic")

\* ---- src/ai/prompts/strategies.ts
\* lines 19-32
buildBase(cfg, currentProvider_) ==
  << Section("base", << PROVIDER_LABELS(currentProvider_) >>) >>

\* lines 34-46
appendReference(prompt, cfg) ==
  prompt
    \o (IF cfg.useReference /\ trim(cfg.referenceText) # <<>>
          THEN << Section("reference-text", trim(cfg.referenceText)) >>
          ELSE <<>>)
    \o (IF Len(cfg.referenceFiles) > 0
          THEN << Section("reference-file-hint", <<>>) >>
          ELSE <<>>)

\* lines 54-62
RoundRobinStrategy_build(cfg, currentProvider_) ==
  appendReference(buildBase(cfg, currentProvider_) \o << Section("roundRobin", <<>>) >>, cfg)

\* lines 67-76
FreeDiscussionStrategy_build(cfg, currentProvider_) ==
  appendReference(buildBase(cfg, currentProvider_) \o << Section("freeDiscussion", <<>>) >>, cfg)

\* lines 81-96: the configured role string is read as a role value, 'neutral'
\* by default, and its label and description are looked up by value
RoleAssignmentStrategy_build(cfg, currentProvider_) ==
  LET roleValue == orElse(roleOf(cfg, currentProvider_), "neutral")
      roleLabel == getRoleLabel(roleValue)
      roleDescription == getRoleDescription(roleValue)
  IN appendReference(buildBase(cfg, currentProvider_)
                       \o << Section("roleAssignment", << roleLabel, roleDescription >>) >>,
                     cfg)

\* lines 102-131
buildJudgePrompt(cfg, currentProvider_) ==
  appendReference(buildBase(cfg, currentProvider_) \o << Section("battle-judge", <<>>) >>, cfg)

\* lines 133-164: a role whose label is not the neutral one adds a character
\* section
buildDebaterPrompt(cfg, currentProvider_) ==
  LET roleValue == roleOf(cfg, currentProvider_)
      given == orElse(roleValue, "") # ""
      roleLabel == IF given THEN getRoleLabel(roleValue) ELSE Undefined
      roleDescription == IF given THEN getRoleDescription(roleValue) ELSE ""
      roleSection == IF given /\ roleLabel # "jungrip"
                       THEN << roleLabel, roleDescription >> ELSE <<>>
  IN appendReference(buildBase(cfg, currentProvider_)
                       \o << Section("battle-debater", roleSection) >>, cfg)

\* lines 166-171
BattleStrategy_build(cfg, currentProvider_) ==
  IF cfg.judgeProvider = currentProvider_
    THEN buildJudgePrompt(cfg, currentProvider_)
    ELSE buildDebaterPrompt(cfg, currentProvider_)

\* lines 188-272 (strategies.ts), 36-119 (debateEngine.ts): the prompt of the
\* artwork sub-mode; both files have the same switch and differ in how the
\* description of the role label is looked up
artworkPrompt(cfg, currentProvider_, roleLabel, roleDescription) ==
  LET subMode == IF cfg.artworkSubMode = Undefined THEN "multiAiDiscussion"
                 ELSE cfg.artworkSubMode
  IN CASE subMode = "multiAiDiscussion" ->
            << Section("artwork-multiAiDiscussion", << cfg.artworkContext >>) >>
       [] subMode = "roleBasedIndividual" ->
            << Section("artwork-roleBasedIndividual",
                       << roleLabel, roleDescription, cfg.artworkContext >>) >>
       [] subMode = "scoreFeedback" ->
            << Section("artwork-scoreFeedback", << cfg.artworkContext >>) >>
       [] OTHER ->
            << Section("artwork-default", <<>>) >>

\* lines 177-276: the prompt is returned as the switch built it
ArtworkEvalStrategy_build(cfg, currentProvider_) ==
  LET roleLabel == orElse(roleOf(cfg, currentProvider_), "misul bipyeongga")
      roleDescription == getArtworkRoleDescription(getArtworkRoleValue(roleLabel))
  IN artworkPrompt(cfg, currentProvider_, roleLabel, roleDescription)

\* PromptBuilder.buildSystemPrompt: the strategy of the mode builds the prompt
PromptBuilder_buildSystemPrompt(cfg, currentProvider_) ==
  CASE cfg.mode = "roundRobin" -> RoundRobinStrategy_build(cfg, currentProvider_)
    [] cfg.mode = "freeDiscussion" -> FreeDiscussionStrategy_build(cfg, currentProvider_)
    [] cfg.mode = "roleAssignment" -> RoleAssignmentStrategy_build(cfg, currentProvider_)
    [] cfg.mode = "battle" -> BattleStrategy_build(cfg, currentProvider_)
    [] cfg.mode = "artworkEval" -> ArtworkEvalStrategy_build(cfg, currentProvider_)

\* ---- src/ai/debateEngine.ts
\* lines 17-121
buildArtworkSystemPrompt(cfg, currentProvider_) ==
  LET roleLabel == orElse(roleOf(cfg, currentProvider_), "misul bipyeongga")
      value == valueOfLabel(ARTWORK_ROLE_OPTIONS, roleLabel)
      roleDescription ==
        IF value # Undefined THEN orElse(ARTWORK_ROLE_DESCRIPTIONS(value), "") ELSE ""
  IN artworkPrompt(cfg, currentProvider_, roleLabel, roleDescription)

\* lines 123-269: the prompt runDebate sends. The configured role string is
\* read as a role label, looked up in ROLE_OPTIONS by label; the reference
\* sections are appended after the switch, for every mode
buildSystemPrompt(cfg, currentProvider_) ==
  LET base == << Section("base", << PROVIDER_LABELS(currentProvider_) >>) >>
      role == roleOf(cfg, currentProvider_)
      describe(roleLabel) ==
        LET value == valueOfLabel(ROLE_OPTIONS, roleLabel)
        IN IF value # Undefined THEN orElse(ROLE_DESCRIPTIONS(value), "") ELSE ""
      prompt ==
        CASE cfg.mode = "roundRobin" -> base \o << Section("roundRobin", <<>>) >>
          [] cfg.mode = "freeDiscussion" -> base \o << Section("freeDiscussion", <<>>) >>
          [] cfg.mode = "roleAssignment" ->
               LET roleLabel == orElse(role, "jungrip")
               IN base \o << Section("roleAssignment",
                                     << roleLabel, describe(roleLabel) >>) >>
          [] cfg.mode = "battle" ->
               IF cfg.judgeProvider = currentProvider_
                 THEN base \o << Section("battle-judge", <<>>) >>
                 ELSE base \o << Section("battle-debater",
                                         IF orElse(role, "") # "" /\ role # "jungrip"
                                           THEN << role, describe(role) >>
                                           ELSE <<>>) >>
          [] cfg.mode = "artworkEval" -> buildArtworkSystemPrompt(cfg, currentProvider_)
          [] OTHER -> base
  IN prompt
       \o (IF cfg.useReference /\ trim(cfg.referenceText) # <<>>
             THEN << Section("reference-text", trim(cfg.referenceText)) >>
             ELSE <<>>)
       \o (IF Len(cfg.referenceFiles) > 0
             THEN << Section("reference-file-hint", <<>>) >>
             ELSE <<>>)

\* ---- the configurations the builders are applied to
ReferenceTexts == { <<>>, <<" ", " ">>, <<" ", "r", "e", "f", " ">> }

\* TopicInput.tsx lines 203, 490 and ArtworkInput.tsx lines 77, 332: the
\* selects store labels, the neutral one and the art critic by default
RoleChoices ==
  { <<>>,
    << [provider |-> "openai", role |-> "jungrip"] >>,
    << [provider |-> "gemini", role |-> "chanseong"],
       [provider |-> "openai", role |-> "chanseong"] >> }

ArtworkRoleChoices ==
  { <<>>,
    << [provider |-> "openai", role |-> "misul bipyeongga"] >> }

\* a judge only in battle mode, a sub-mode and an artwork note only in artwork
\* mode, roles only where the mode reads them
PromptConfigs ==
  { c \in [ mode : PromptModes,
            participants : { <<"gemini", "openai", "anthropic">> },
            judgeProvider : {Null, "anthropic"},
            artworkSubMode : ArtworkSubModes \cup {Undefined},
            artworkContext : {"", "note"},
            roles : RoleChoices \cup ArtworkRoleChoices,
            useReference : BOOLEAN,
            referenceText : ReferenceTexts,
            referenceFiles : ReferenceFileChoices ] :
      /\ c.mode # "battle" => c.judgeProvider = Null
      /\ c.mode # "artworkEval" => (c.artworkSubMode = Undefined /\ c.artworkContext = "")
      /\ c.mode \in {"roundRobin", "freeDiscussion"} => c.roles = <<>>
      /\ c.mode \in {"roleAssignment", "battle"} => c.roles \in RoleChoices
      /\ c.mode = "artworkEval" => c.roles \in ArtworkRoleChoices }

InitPrompt ==
  /\ RunInit
  /\ config = ContextConfig
  /\ providerConfigs = [p \in Providers |-> GoodConfig(p)]
  /\ ContextIdle
  /\ DbIdle
  /\ LibIdle
  /\ promptConfig \in PromptConfigs
  /\ promptFor \in {"openai", "anthropic"}
  /\ systemPrompt = <<>>
  /\ builtBy = "none"

\* promptBuilder.buildSystemPrompt(config, provider)
BuildStrategyPrompt ==
  /\ systemPrompt' = PromptBuilder_buildSystemPrompt(promptConfig, promptFor)
  /\ builtBy' = "PromptBuilder"
  /\ UNCHANGED << promptConfig, promptFor, runVars, contextVars, dbVars, libVars >>

\* line 506: buildSystemPrompt(config, provider) in runDebate
BuildEnginePrompt ==
  /\ systemPrompt' = buildSystemPrompt(promptConfig, promptFor)
  /\ builtBy' = "debateEngine"
  /\ UNCHANGED << promptConfig, promptFor, runVars, contextVars, dbVars, libVars >>

NextPrompt ==
  \/ BuildStrategyPrompt
  \/ BuildEnginePrompt

SpecPrompt == InitPrompt /\ [][NextPrompt]_vars

\* the kinds of the sections of the prompt
SectionKinds == {systemPrompt[i].kind : i \in 1..Len(systemPrompt)}

ReferenceTextConfigured ==
  promptConfig.useReference
    /\ \E i \in 1..Len(promptConfig.referenceText) : promptConfig.referenceText[i] # " "

\* C29: whatever the mode and sub-mode, a built prompt has the reference-text
\* section when useReference is set and referenceText is not blank, and the
\* reference-file hint when referenceFiles is not empty
C29_ReferenceAppended ==
  builtBy # "none" =>
    /\ ReferenceTextConfigured => "reference-text" \in SectionKinds
    /\ Len(promptConfig.referenceFiles) > 0 => "reference-file-hint" \in SectionKinds

\* the sections of a prompt that carry the mode directive and the role
ModeSections(prompt) ==
  SelectSeq(prompt, LAMBDA sec : sec.kind \notin {"base", "reference-text", "reference-file-hint"})

\* the reference appendices of a prompt
ReferenceSections(prompt) ==
  SelectSeq(prompt, LAMBDA sec : sec.kind \in {"reference-text", "reference-file-hint"})

\* C34: for every configuration and participant the strategy-based builder
\* and the engine's buildSystemPrompt give the same mode directive, the same
\* role label and description, and the same reference appendices
C34_BuildersAgree ==
  builtBy # "none" =>
    LET strategy == PromptBuilder_buildSystemPrompt(promptConfig, promptFor)
        engine == buildSystemPrompt(promptConfig, promptFor)
    IN /\ ModeSections(strategy) = ModeSections(engine)
       /\ ReferenceSections(strategy) = ReferenceSections(engine)

\* the two builders give the same role label and description in the
\* role-assignment and battle modes (they do not: see C34)
RolesAgree ==
  (builtBy # "none" /\ promptConfig.mode \in {"roleAssignment", "battle"}) =>
    ModeSections(PromptBuilder_buildSystemPrompt(promptConfig, promptFor))
      = ModeSections(buildSystemPrompt(promptConfig, promptFor))

\* ------------------------------------------------------------ the store
\* DebateDB keeps three tables with a primary key 'id' each. A table is the
\* set of its rows; a row is its id and, for messages and reference files,
\* the id of its debate.
MaxBundleMessages == 2
MaxBundleFiles == 1
MaxPersists == 1

DebateIds == {"d1", "d2"}
MessageIds == {"m1", "m2"}
FileIds == {"f1"}

\* _createTables on a new database
EmptyDb == [open |-> TRUE, debates |-> {}, messages |-> {}, reference_files |-> {}]

\* sequences of at most n elements of S
SeqsUpTo(S, n) == UNION {[1..k -> S] : k \in 0..n}

\* the optional argument referenceFiles when it is omitted
NoReferenceFiles == [given |-> FALSE, rows |-> <<>>]

\* the arguments of saveDebateBundle: the rows of one debate; referenceFiles
\* is optional
Bundles ==
  UNION { [ debate : {[id |-> d]},
            messages : SeqsUpTo([id : MessageIds, debateId : {d}], MaxBundleMessages),
            referenceFiles :
              {NoReferenceFiles} \cup
              [ given : {TRUE},
                rows : SeqsUpTo([id : FileIds, debateId : {d}], MaxBundleFiles) ] ]
          : d \in DebateIds }

\* INSERT of the rows in order, each by its own statement: step() throws at
\* the first row whose primary key is taken, the rows before it are in
RECURSIVE insertRows(_, _)
insertRows(table, rows) ==
  IF rows = <<>> THEN [table |-> table, threw |-> FALSE]
  ELSE IF \E r \in table : r.id = Head(rows).id
    THEN [table |-> table, threw |-> TRUE]
    ELSE insertRows(table \cup {Head(rows)}, Tail(rows))

\* faulty variant: the catch block rethrows without ROLLBACK
rollback_omitted(work, begun) == work

\* line 440: ROLLBACK restores the tables as BEGIN TRANSACTION found them
rollback(work, begun) == begun

\* part_001 line 134, and the time one tick stands for
DEBOUNCE_MS == 500
TickMs == 250
DebounceTicks == DEBOUNCE_MS \div TickMs

\* lines 286-289: _scheduleSave clears the pending timer and starts a new one
scheduleSave(d) == [d EXCEPT !.saveScheduled = TRUE, !.timerLeft = DebounceTicks]

\* lines 281-284: _markDirty sets the flag and (re)starts the debounce timer
markDirty(d) == scheduleSave([d EXCEPT !.dirty = TRUE])

\* faulty variant: a failed save is not retried
persistFailed_noRetry(d) == d

\* lines 297-301: the catch block of _persist
persistFailed(d) == scheduleSave([d EXCEPT !.dirty = TRUE])

\* lines 362-443, on the store d = [db, dirty, saveScheduled, timerLeft]; the
\* result has the outcome of the call as well
saveDebateBundle(d, debate, messages, referenceFiles) ==
  IF ~d.db.open
    THEN [db |-> d.db, dirty |-> d.dirty, saveScheduled |-> d.saveScheduled,
          timerLeft |-> d.timerLeft, outcome |-> "thrown"]
    ELSE
      LET begun == d.db
          s1 == insertRows(begun.debates, << debate >>)
          s2 == IF s1.threw THEN [table |-> begun.messages, threw |-> TRUE]
                ELSE insertRows(begun.messages, messages)
          s3 == IF s2.threw \/ ~referenceFiles.given
                  THEN [table |-> begun.reference_files, threw |-> s2.threw]
                  ELSE insertRows(begun.reference_files, referenceFiles.rows)
          work == [open |-> TRUE, debates |-> s1.table, messages |-> s2.table,
                   reference_files |-> s3.table]
      IN IF s3.threw
           THEN [db |-> rollback(work, begun), dirty |-> d.dirty,
                 saveScheduled |-> d.saveScheduled, timerLeft |-> d.timerLeft,
                 outcome |-> "thrown"]
           ELSE [db |-> work, outcome |-> "returned"]
                  @@ markDirty([dirty |-> d.dirty, saveScheduled |-> d.saveScheduled,
                                timerLeft |-> d.timerLeft])

\* lines 445-468: the rows of the debate leave the three tables
deleteRows(tables, id) ==
  [open |-> tables.open,
   debates |-> {r \in tables.debates : r.id # id},
   messages |-> {r \in tables.messages : r.debateId # id},
   reference_files |-> {r \in tables.reference_files : r.debateId # id}]

\* lines 159-171: the database _doInit opens, from the saved snapshot if any
openDatabase(savedData) == IF savedData.open THEN savedData ELSE EmptyDb

\* line 174 resumes when the save of _doInit settles either way (_persist
\* catches its error): the listeners are registered and the run's promise is
\* fulfilled
SettleInit(entry) ==
  IF entry.init
    THEN /\ doInit' = "idle"
         /\ attempts' = [attempts EXCEPT ![initPromise] = "fulfilled"]
         /\ UNCHANGED << initPromise, initCalls >>
    ELSE UNCHANGED initVars

InitDB ==
  /\ RunInit
  /\ config = ContextConfig
  /\ providerConfigs = [p \in Providers |-> GoodConfig(p)]
  /\ ContextIdle
  /\ PromptIdle
  /\ DbIdle
  /\ LibIdle

notDbVars == << runVars, contextVars, promptVars, libVars >>

\* lines 147-174: the first init() call, up to the await of _persist: it
\* opens the database, creates the tables and starts the first save
DbInit ==
  /\ initPromise = 0
  /\ attempts = <<>>
  /\ initPromise' = 1
  /\ attempts' = << "pending" >>
  /\ initCalls' = << 1 >>
  /\ doInit' = "persisting"
  /\ db' = openDatabase(idb)
  /\ dirty' = FALSE
  /\ persisting' = Append(persisting, [data |-> db', init |-> TRUE])
  /\ lastCall' = NoCall
  /\ UNCHANGED << saveScheduled, timerLeft, idb, notDbVars >>

\* a caller saves one of the given bundles
SaveDebateBundleOf(bundles) ==
  /\ \E bundle \in bundles :
       LET d == [db |-> db, dirty |-> dirty, saveScheduled |-> saveScheduled,
                 timerLeft |-> timerLeft]
           r == saveDebateBundle(d, bundle.debate, bundle.messages, bundle.referenceFiles)
       IN /\ db' = r.db
          /\ dirty' = r.dirty
          /\ saveScheduled' = r.saveScheduled
          /\ timerLeft' = r.timerLeft
          /\ lastCall' = [outcome |-> r.outcome, bundle |-> bundle, before |-> d]
  /\ UNCHANGED << persisting, idb, initVars, notDbVars >>

\* a caller saves a bundle
SaveDebateBundle == SaveDebateBundleOf(Bundles)

\* a caller deletes a debate
DeleteDebate ==
  /\ db.open
  /\ \E id \in DebateIds : db' = deleteRows(db, id)
  /\ LET d == markDirty([dirty |-> dirty, saveScheduled |-> saveScheduled,
                         timerLeft |-> timerLeft])
     IN /\ dirty' = d.dirty
        /\ saveScheduled' = d.saveScheduled
        /\ timerLeft' = d.timerLeft
  /\ lastCall' = NoCall
  /\ UNCHANGED << persisting, idb, initVars, notDbVars >>

\* one tick of the time the pending timer waits
TimePasses ==
  /\ saveScheduled
  /\ timerLeft > 0
  /\ timerLeft' = timerLeft - 1
  /\ UNCHANGED << db, dirty, saveScheduled, persisting, idb, lastCall, initVars, notDbVars >>

\* lines 291-296: _persist clears the flag, exports the database and awaits
\* saveDatabaseToIDB
StartPersist ==
  /\ Len(persisting) < MaxPersists
  /\ dirty' = FALSE
  /\ persisting' = Append(persisting, [data |-> db, init |-> FALSE])
  /\ lastCall' = NoCall

\* line 288: the debounce timer fires
SaveTimerFires ==
  /\ saveScheduled
  /\ timerLeft = 0
  /\ saveScheduled' = FALSE
  /\ StartPersist
  /\ UNCHANGED << db, timerLeft, idb, initVars, notDbVars >>

\* lines 176-188: the app goes to the background or the tab is hidden, with
\* the listeners a completed _doInit registered
PageHidden ==
  /\ initPromise # 0
  /\ attempts[initPromise] = "fulfilled"
  /\ dirty
  /\ db.open
  /\ StartPersist
  /\ UNCHANGED << db, saveScheduled, timerLeft, idb, initVars, notDbVars >>

\* lines 118-125, 296: the oldest transaction completes (IndexedDB runs the
\* readwrite transactions of one store in the order they were created):
\* its data is the stored snapshot, saveDatabaseToIDB resolves
PersistResolves ==
  /\ persisting # <<>>
  /\ idb' = Head(persisting).data
  /\ persisting' = Tail(persisting)
  /\ SettleInit(Head(persisting))
  /\ UNCHANGED << db, dirty, saveScheduled, timerLeft, lastCall, notDbVars >>

\* lines 297-301: saveDatabaseToIDB rejected for one of the pending saves,
\* the save is scheduled again
PersistRejects ==
  /\ \E i \in 1..Len(persisting) :
       /\ persisting' = SubSeq(persisting, 1, i - 1)
                          \o SubSeq(persisting, i + 1, Len(persisting))
       /\ SettleInit(persisting[i])
  /\ LET d == persistFailed([dirty |-> dirty, saveScheduled |-> saveScheduled,
                             timerLeft |-> timerLeft])
     IN /\ dirty' = d.dirty
        /\ saveScheduled' = d.saveScheduled
        /\ timerLeft' = d.timerLeft
  /\ lastCall' = NoCall
  /\ UNCHANGED << db, idb, notDbVars >>

\* the tables after the bundle of debate d1 with message m1 was saved
SavedDb ==
  [open |-> TRUE,
   debates |-> {[id |-> "d1"]},
   messages |-> {[id |-> "m1", debateId |-> "d1"]},
   reference_files |-> {}]

\* the store before init(), or at rest after init(), a saved bundle and the
\* save of it
InitStore ==
  /\ RunInit
  /\ config = ContextConfig
  /\ providerConfigs = [p \in Providers |-> GoodConfig(p)]
  /\ ContextIdle
  /\ PromptIdle
  /\ LibIdle
  /\ \/ DbIdle
     \/ /\ db = SavedDb
        /\ idb = db
        /\ dirty = FALSE
        /\ saveScheduled = FALSE
        /\ timerLeft = 0
        /\ persisting = <<>>
        /\ lastCall = NoCall
        /\ initPromise = 1
        /\ doInit = "idle"
        /\ attempts = << "fulfilled" >>
        /\ initCalls = << 1 >>

\* the calls of the store; the saves they schedule are the subject of
\* SpecPersist
NextDB ==
  \/ DbInit
  \/ SaveDebateBundle
  \/ DeleteDebate

SpecDB == InitStore /\ [][NextDB]_vars

\* the ids of a sequence of rows are distinct and none is taken in the table
Insertable(table, rows) ==
  /\ \A i \in 1..Len(rows) : \A r \in table : r.id # rows[i].id
  /\ \A i \in 1..Len(rows) : \A j \in 1..Len(rows) : i # j => rows[i].id # rows[j].id

\* the reference files of the last call's bundle (none when omitted)
BundleFiles ==
  IF lastCall.bundle.referenceFiles.given THEN lastCall.bundle.referenceFiles.rows
  ELSE <<>>

\* every insert of the last call's bundle could succeed in the store it found
BundleInsertable ==
  /\ lastCall.before.db.open
  /\ Insertable(lastCall.before.db.debates, << lastCall.bundle.debate >>)
  /\ Insertable(lastCall.before.db.messages, lastCall.bundle.messages)
  /\ Insertable(lastCall.before.db.reference_files, BundleFiles)

Rows(seq) == {seq[i] : i \in 1..Len(seq)}

\* C30: a saveDebateBundle call in which an insert fails throws, leaves the
\* tables as it found them and schedules no persist; a call in which every
\* insert succeeds returns, after it all rows of the bundle (and the rows
\* that were there before) are in the tables, the store is dirty and a
\* persist is scheduled
C30_BundleAllOrNothing ==
  lastCall.outcome # "none" =>
    IF BundleInsertable
      THEN /\ lastCall.outcome = "returned"
           /\ db.debates = lastCall.before.db.debates \cup {lastCall.bundle.debate}
           /\ db.messages = lastCall.before.db.messages \cup Rows(lastCall.bundle.messages)
           /\ db.reference_files =
                lastCall.before.db.reference_files \cup Rows(BundleFiles)
           /\ dirty
           /\ saveScheduled
      ELSE /\ lastCall.outcome = "thrown"
           /\ db = lastCall.before.db
           /\ dirty = lastCall.before.dirty
           /\ saveScheduled = lastCall.before.saveScheduled
           /\ timerLeft = lastCall.before.timerLeft

\* a bundle whose debate row and first message went in and whose second
\* message failed, in a clean store with no persist pending: nothing is left
C30_Witness ==
  /\ lastCall.outcome = "thrown"
  /\ lastCall.before.db.open
  /\ Insertable(lastCall.before.db.debates, << lastCall.bundle.debate >>)
  /\ Len(lastCall.bundle.messages) = 2
  /\ Insertable(lastCall.before.db.messages, << lastCall.bundle.messages[1] >>)
  /\ ~Insertable(lastCall.before.db.messages, lastCall.bundle.messages)
  /\ db = lastCall.before.db
  /\ ~dirty
  /\ ~saveScheduled

\* ---- further properties of whole runs (specification Spec)

\* C33: in a completed run in which every participant is credentialed, every
\* pacing tick is followed by the dispatch of another turn
C33_PacingOnlyBetweenTurns ==
  (pc = "completed" /\ AllCredentialed) =>
    \A i \in Ticks : \E c \in Calls : c > i

\* every provider that has a slot in the run
SlotProviders ==
  {turnParticipants[k] : k \in 1..Len(turnParticipants)}
    \cup (IF JudgeConfigured THEN {config.judgeProvider} ELSE {})

\* C35: cursor reports, loading reports and calls name credentialed providers
\* only, there is one cursor report per debater call, and every tick belongs
\* to the pacing that follows a message; a completed run without any
\* credentialed provider has reported 'running', cleared the loading
\* indicator and reported 'completed', nothing else
C35_SkippedSlotSilent ==
  /\ \A i \in Idx :
       (trace[i].ev \in {"loading", "call"} /\ trace[i].provider # Null)
         => Credentialed(trace[i].provider)
  /\ Len(CursorReports) = Cardinality({c \in Calls : trace[c].value = "debater"})
  /\ \A i \in Ticks :
       \E m \in Msgs :
         /\ m < i
         /\ \A k \in (m + 1)..(i - 1) :
              \/ trace[k].ev = "status"
              \/ trace[k].ev = "tick" /\ trace[k].n # 0
  /\ (pc = "completed" /\ \A p \in SlotProviders : ~Credentialed(p)) =>
       trace = << StatusEv("running"), LoadingEv(Null), StatusEv("completed") >>

\* a completed run in which a slot was skipped in every round and the other
\* participant spoke and was paced
C35_Witness ==
  /\ pc = "completed"
  /\ config.maxRounds = 2
  /\ \E p \in SlotProviders : ~Credentialed(p)
  /\ Len(MessageLog) = 2
  /\ Ticks # {}

\* the step appended the message of a successful call
SuccessReported ==
  \E i \in (Len(trace) + 1)..Len(trace') :
    trace'[i].ev = "message" /\ trace'[i].error = Undefined

\* the step is the engine's return from the wait of an auto-pause
AutoPauseResumed ==
  /\ pc = "sleep500"
  /\ site = "err"
  /\ status = "running"
  /\ ~aborted

\* C36: the failure counter stays in 0..PauseThreshold and is below the
\* threshold whenever a call is dispatched; it changes only by going up by
\* one, or to 0 in a step that reports a successful call or returns from the
\* wait of an auto-pause (so never in a step of the host)
C36_CounterDiscipline ==
  [][ /\ consecutiveErrors' \in 0..PauseThreshold
      /\ inFlight' > inFlight => consecutiveErrors' < PauseThreshold
      /\ consecutiveErrors' # consecutiveErrors =>
           \/ consecutiveErrors' = consecutiveErrors + 1
           \/ /\ consecutiveErrors' = 0
              /\ SuccessReported \/ AutoPauseResumed ]_vars

\* after an auto-pause and its resume a call is in flight with the counter at
\* 0, a moderator's message having been injected on the way
C36_Witness ==
  /\ pc = "callProvider"
  /\ consecutiveErrors = 0
  /\ PausedReports # {}
  /\ injected > 0
  /\ \A m \in Msgs : trace[m].error # Undefined

\* ------------------------------------------------- the helpers of src/lib
\* everything but the helpers of src/lib is idle
IdleButLib ==
  /\ RunInit
  /\ config = ContextConfig
  /\ providerConfigs = [p \in Providers |-> GoodConfig(p)]
  /\ ContextIdle
  /\ PromptIdle
  /\ DbIdle

notLibVars == << runVars, contextVars, promptVars, dbVars >>

\* ---- src/lib/apiClient.ts: DiscussionConfigSchema and validateConfig
\* A JavaScript value is its type with, for a string its length, for a number
\* its value, for an array its items, for an enum candidate its text.
Str(len) == [type |-> "string", n |-> len, items |-> <<>>]
Num(v) == [type |-> "number", n |-> v, items |-> <<>>]
Arr(items) == [type |-> "array", n |-> Len(items), items |-> items]
Word(w) == [type |-> "word", n |-> 0, items |-> << w >>]

TopicMinLength == 3
MinRounds == 1
MaxRoundsAllowed == 10
MinParticipants == 2
MinAutoDelay == 5
MaxAutoDelay == 60

ProviderEnum == {"openai", "anthropic", "gemini", "xai"}

\* faulty variant: any non-empty topic passes
topicIssues_nonEmpty(v) ==
  IF v.type # "string" THEN << <<"topic", "invalid_type">> >>
  ELSE IF v.n < 1 THEN << <<"topic", "too_small">> >>
  ELSE <<>>

\* line 303: z.string().min(3)
topicIssues(v) ==
  IF v.type # "string" THEN << <<"topic", "invalid_type">> >>
  ELSE IF v.n < TopicMinLength THEN << <<"topic", "too_small">> >>
  ELSE <<>>

\* line 304: the mode enum
modeIssues(v) ==
  IF v.type = "word" /\ v.items[1] \in PromptModes THEN <<>>
  ELSE << <<"mode", "invalid_value">> >>

\* line 305: z.number().min(1).max(10)
maxRoundsIssues(v) ==
  IF v.type # "number" THEN << <<"maxRounds", "invalid_type">> >>
  ELSE IF v.n < MinRounds THEN << <<"maxRounds", "too_small">> >>
  ELSE IF v.n > MaxRoundsAllowed THEN << <<"maxRounds", "too_big">> >>
  ELSE <<>>

\* line 306: an array of providers, .min(2); every item is checked
participantsIssues(v) ==
  IF v.type # "array" THEN << <<"participants", "invalid_type">> >>
  ELSE (IF v.n < MinParticipants THEN << <<"participants", "too_small">> >> ELSE <<>>)
         \o SelectSeq([i \in 1..v.n |->
                         IF v.items[i] \in ProviderEnum THEN <<"", "">>
                         ELSE <<"participants.item", "invalid_value">>],
                      LAMBDA x : x # <<"", "">>)

\* line 308: optional
judgeProviderIssues(v) ==
  IF v = Missing THEN <<>>
  ELSE IF v.type = "word" /\ v.items[1] \in ProviderEnum THEN <<>>
  ELSE << <<"judgeProvider", "invalid_value">> >>

\* lines 270-275, 309: the pacing object is required; the delay defaults to 5
pacingIssues(v) ==
  IF v.type # "array" THEN << <<"pacing", "invalid_type">> >>
  ELSE (IF v.items[1] \in {"auto", "manual"} THEN <<>>
        ELSE << <<"pacing.mode", "invalid_value">> >>)
       \o (IF v.n = 1 THEN <<>>
           ELSE IF v.items[2] < MinAutoDelay
             THEN << <<"pacing.autoDelaySeconds", "too_small">> >>
           ELSE IF v.items[2] > MaxAutoDelay
             THEN << <<"pacing.autoDelaySeconds", "too_big">> >>
           ELSE <<>>)

\* lines 279-285, 312: an array of reference files, default []; an item is
\* the word "ok" when it satisfies ReferenceFileSchema
referenceFilesIssues(v) ==
  IF v = Missing THEN <<>>
  ELSE IF v.type # "array" THEN << <<"referenceFiles", "invalid_type">> >>
  ELSE SelectSeq([i \in 1..v.n |->
                    IF v.items[i] = "ok" THEN <<"", "">>
                    ELSE <<"referenceFiles.item", "invalid">>],
                 LAMBDA x : x # <<"", "">>)

\* lines 302-313: DiscussionConfigSchema.parse collects the issues of all
\* fields (roles, referenceText and useReference have defaults and are left
\* out of the inputs)
parseIssues(d) ==
  topicIssues(d.topic) \o modeIssues(d.mode) \o maxRoundsIssues(d.maxRounds)
    \o participantsIssues(d.participants) \o judgeProviderIssues(d.judgeProvider)
    \o pacingIssues(d.pacing) \o referenceFilesIssues(d.referenceFiles)

\* lines 344-355: parse, and a ZodError becomes the list of its issues
validateConfig(d) ==
  LET issues == parseIssues(d)
  IN IF issues = <<>>
       THEN [called |-> TRUE, threw |-> FALSE, valid |-> TRUE, errors |-> <<>>]
       ELSE [called |-> TRUE, threw |-> FALSE, valid |-> FALSE, errors |-> issues]

\* the values the fields are drawn from
ConfigInputs ==
  [ topic : {Missing, Num(5), Str(0), Str(2), Str(3), Str(4)},
    mode : {Missing, Word("battle"), Word("bogus")},
    maxRounds : {Missing, Num(0), Num(1), Num(10), Num(11)},
    participants : {Missing, Arr(<<>>), Arr(<<"openai">>), Arr(<<"openai", "anthropic">>),
                    Arr(<<"openai", "bogus">>), Arr(<<"gemini", "openai", "xai">>)},
    judgeProvider : {Missing, Word("anthropic"), Word("bogus")},
    pacing : {Missing, Arr(<<"manual">>), Arr(<<"auto", 4>>), Arr(<<"auto", 60>>)},
    referenceFiles : {Missing, Arr(<<>>), Arr(<<"ok", "bad">>)} ]

InitValidate ==
  /\ IdleButLib
  /\ RetryIdle
  /\ FilesIdle
  /\ data \in ConfigInputs
  /\ validation = [called |-> FALSE]

\* validateConfig(DiscussionConfigSchema, data)
ValidateConfig ==
  /\ ~validation.called
  /\ validation' = validateConfig(data)
  /\ UNCHANGED << data, retryVars, fileVars, notLibVars >>

NextValidate ==
  \/ ValidateConfig

SpecValidate == InitValidate /\ [][NextValidate]_vars

\* what the claim requires of an accepted config
ClaimedRequirements ==
  /\ data.topic.type = "string" /\ data.topic.n >= 3
  /\ data.maxRounds.type = "number" /\ data.maxRounds.n \in 1..10
  /\ data.participants.type = "array" /\ Len(data.participants.items) >= 2

\* C31: validateConfig returns without throwing; a config it accepts has a
\* topic of at least 3 characters, maxRounds in 1..10 and at least 2
\* participants; a config it rejects comes with a non-empty list of errors,
\* one at least for each of these requirements that is violated; a config that
\* is valid in every field is accepted also without judgeProvider and with
\* empty referenceFiles
C31_ConfigValidation ==
  validation.called =>
    /\ ~validation.threw
    /\ validation.valid => (ClaimedRequirements /\ validation.errors = <<>>)
    /\ ~validation.valid => validation.errors # <<>>
    /\ \A f \in {"topic", "maxRounds", "participants"} :
         (\E i \in 1..Len(validation.errors) : validation.errors[i][1] = f)
           <=> CASE f = "topic" -> ~(data.topic.type = "string" /\ data.topic.n >= 3)
                 [] f = "maxRounds" ->
                      ~(data.maxRounds.type = "number" /\ data.maxRounds.n \in 1..10)
                 [] f = "participants" ->
                      ~(data.participants.type = "array"
                          /\ Len(data.participants.items) >= 2)
    /\ ( /\ ClaimedRequirements
         /\ data.mode = Word("battle")
         /\ data.participants.items = <<"openai", "anthropic">>
         /\ data.pacing = Arr(<<"manual">>)
         /\ data.judgeProvider = Missing
         /\ data.referenceFiles = Arr(<<>>) ) => validation.valid

\* a config at the limits (topic of 3 characters, 10 rounds, 2 participants),
\* without judge and with empty referenceFiles, was accepted
C31_Witness ==
  /\ validation.called
  /\ validation.valid
  /\ data.topic = Str(3)
  /\ data.maxRounds = Num(10)
  /\ data.participants = Arr(<<"openai", "anthropic">>)
  /\ data.judgeProvider = Missing
  /\ data.referenceFiles = Arr(<<>>)

\* ---- src/lib/apiClient.ts: the retry delay of APIClient
\* Delays are in milliseconds. Math.random() is k / RandomSteps for some k in
\* 0..RandomSteps-1; the jitter delay * 0.1 * Math.random() is kept as its
\* numerator over 10 * RandomSteps, so that no rounding enters.
MaxRetries == 4
RandomSteps == 4

RECURSIVE pow(_, _)
pow(b, e) == IF e = 0 THEN 1 ELSE b * pow(b, e - 1)

min(a, b) == IF a < b THEN a ELSE b

\* faulty variant: the delay is not capped
retryDelay_uncapped(cfg, retryCount, k) ==
  LET delay == cfg.initialDelayMs * pow(cfg.backoffMultiplier, retryCount - 1)
  IN [retryCount |-> retryCount, delay |-> delay, jitterNum |-> delay * k]

\* lines 54-61: the delay before retry number retryCount
retryDelay(cfg, retryCount, k) ==
  LET delay == min(cfg.initialDelayMs * pow(cfg.backoffMultiplier, retryCount - 1),
                   cfg.maxDelayMs)
  IN [retryCount |-> retryCount, delay |-> delay, jitterNum |-> delay * k]

\* the retry configurations: the default one (lines 17-23) and others with
\* a multiplier of at least 1, as every configuration of the repository has
RetryConfigs ==
  [ maxRetries : {MaxRetries},
    initialDelayMs : {100, 1000},
    maxDelayMs : {1000, 5000, 10000},
    backoffMultiplier : {1, 2, 3} ]

InitRetry ==
  /\ IdleButLib
  /\ ValidateIdle
  /\ FilesIdle
  /\ retryConfig \in RetryConfigs
  /\ retryLog = <<>>

\* axios-retry asks for the delay of the next retry
RetryDelay ==
  /\ Len(retryLog) < retryConfig.maxRetries
  /\ \E k \in 0..(RandomSteps - 1) :
       retryLog' = Append(retryLog, retryDelay(retryConfig, Len(retryLog) + 1, k))
  /\ UNCHANGED << retryConfig, validateVars, fileVars, notLibVars >>

NextRetry ==
  \/ RetryDelay

SpecRetry == InitRetry /\ [][NextRetry]_vars

MAX_FILES == 5
MaxFileList == 6

ACCEPTED_TYPES ==
  {"image/png", "image/jpeg", "image/gif", "image/webp", "application/pdf"}

FileKinds ==
  { [type |-> "image/png", sizeOk |-> TRUE, readable |-> TRUE],
    [type |-> "text/plain", sizeOk |-> TRUE, readable |-> TRUE],
    [type |-> "application/pdf", sizeOk |-> FALSE, readable |-> TRUE],
    [type |-> "image/webp", sizeOk |-> TRUE, readable |-> FALSE] }

\* faulty variant: the count check lets one file more in
validateFile_offByOne(file, currentCount) ==
  IF file.type \notin ACCEPTED_TYPES THEN "type"
  ELSE IF ~file.sizeOk THEN "size"
  ELSE IF currentCount > MAX_FILES THEN "count"
  ELSE Null

\* lines 157-184: the kind of the validation error, or null
validateFile(file, currentCount) ==
  IF file.type \notin ACCEPTED_TYPES THEN "type"
  ELSE IF ~file.sizeOk THEN "size"
  ELSE IF currentCount >= MAX_FILES THEN "count"
  ELSE Null

\* lines 229-245: the loop over the files, from the arrays built so far
RECURSIVE processFiles(_, _, _, _)
processFiles(fileList, existingCount, files, errors) ==
  IF fileList = <<>> THEN [called |-> TRUE, files |-> files, errors |-> errors]
  ELSE
    LET file == Head(fileList)
        error == validateFile(file, existingCount + Len(files))
    IN IF error # Null
         THEN processFiles(Tail(fileList), existingCount, files,
                           Append(errors, [type |-> error, name |-> file.name]))
       ELSE IF file.readable
         THEN processFiles(Tail(fileList), existingCount,
                           Append(files, [filename |-> file.name, mimeType |-> file.type]),
                           errors)
       ELSE processFiles(Tail(fileList), existingCount, files,
                         Append(errors, [type |-> "type", name |-> file.name]))

\* lines 218-248
processFileList(input) ==
  IF input.isNull THEN [called |-> TRUE, files |-> <<>>, errors |-> <<>>]
  ELSE processFiles(input.fileList, input.existingCount, <<>>, <<>>)

\* the lists of at most MaxFileList files, and no list at all
InitFiles ==
  /\ IdleButLib
  /\ ValidateIdle
  /\ RetryIdle
  /\ \E k \in 0..MaxFileList : \E kinds \in [1..k -> FileKinds] :
       \E c \in 0..MAX_FILES :
         fileInput \in { [isNull |-> FALSE,
                          fileList |-> [i \in 1..k |-> [name |-> i] @@ kinds[i]],
                          existingCount |-> c],
                         [isNull |-> TRUE, fileList |-> <<>>, existingCount |-> c] }
  /\ fileResult = [called |-> FALSE]

\* processFileList(fileList, existingCount) resolves
ProcessFileList ==
  /\ ~fileResult.called
  /\ fileResult' = processFileList(fileInput)
  /\ UNCHANGED << fileInput, validateVars, retryVars, notLibVars >>

NextFiles ==
  \/ ProcessFileList

SpecFiles == InitFiles /\ [][NextFiles]_vars

\* C39: with existingCount <= MAX_FILES, existingCount plus the accepted
\* files is at most MAX_FILES; every input file has exactly one outcome
\* (accepted or error); the accepted files are acceptable files of the input
\* in input order, each accepted while the count was below MAX_FILES
C39_FileListBounded ==
  fileResult.called =>
    LET files == fileResult.files
        errors == fileResult.errors
        input == fileInput.fileList
    IN /\ fileInput.existingCount + Len(files) <= MAX_FILES
       /\ Len(files) + Len(errors) = Len(input)
       /\ \A i \in 1..Len(files) :
            /\ files[i].filename \in 1..Len(input)
            /\ input[files[i].filename].type \in ACCEPTED_TYPES
            /\ input[files[i].filename].sizeOk
            /\ fileInput.existingCount + (i - 1) < MAX_FILES
            /\ i > 1 => files[i-1].filename < files[i].filename
       /\ \A i \in 1..Len(files) : \A j \in 1..Len(errors) :
            files[i].filename # errors[j].name

\* six good files on top of two existing ones: three are accepted, the
\* other three are refused for the count
C39_Witness ==
  /\ fileResult.called
  /\ fileInput.existingCount = 2
  /\ Len(fileInput.fileList) = 6
  /\ Len(fileResult.files) = 3
  /\ Len(fileResult.errors) = 3
  /\ \A j \in 1..3 : fileResult.errors[j].type = "count"

\* ---- the saves of the store (specification SpecPersist)
\* the bundles of a debate row alone: what a save stores does not depend on
\* the rows of a bundle
SmallBundles == {b \in Bundles : b.messages = <<>> /\ ~b.referenceFiles.given}

NextPersist ==
  \/ DbInit
  \/ SaveDebateBundleOf(SmallBundles)
  \/ DeleteDebate
  \/ TimePasses
  \/ SaveTimerFires
  \/ PageHidden
  \/ PersistResolves
  \/ PersistRejects

\* time passes, a timer that is due fires, and a save that is tried again and
\* again succeeds at last
SpecPersist ==
  /\ InitDB
  /\ [][NextPersist]_vars
  /\ WF_vars(TimePasses)
  /\ WF_vars(SaveTimerFires)
  /\ SF_vars(PersistResolves)

\* a write that was committed
CommittedWrite ==
  \/ SaveDebateBundleOf(SmallBundles) /\ lastCall'.outcome = "returned"
  \/ DeleteDebate

\* the data of the save that was started last, or the stored snapshot when
\* every save has settled
LastExport ==
  IF persisting # <<>> THEN persisting[Len(persisting)].data ELSE idb

\* the timer is pending with its full delay and the store is marked dirty
SaveDue == dirty /\ saveScheduled /\ timerLeft = DebounceTicks

MaxInitCalls == 4

\* faulty variant: init() does not look at initPromise
hasInitPromise_ignored(p) == FALSE

\* line 148: if (this.initPromise)
hasInitPromise(p) == p # 0

notInitVars == << lastCall, notDbVars >>

\* lines 147-154: init() returns the promise of the run in progress or done,
\* or starts _doInit and keeps its promise; _doInit runs up to its first
\* await
CallInit ==
  /\ Len(initCalls) < MaxInitCalls
  /\ IF hasInitPromise(initPromise)
       THEN /\ initCalls' = Append(initCalls, initPromise)
            /\ UNCHANGED << initPromise, doInit, attempts >>
       ELSE /\ attempts' = Append(attempts, "pending")
            /\ initPromise' = Len(attempts) + 1
            /\ initCalls' = Append(initCalls, Len(attempts) + 1)
            /\ doInit' = "loading"
  /\ UNCHANGED << db, dirty, saveScheduled, timerLeft, persisting, idb, notInitVars >>

\* lines 157-174: sql.js and the snapshot are loaded, the database is opened,
\* the tables are created and the first save is started
DoInitLoads ==
  /\ doInit = "loading"
  /\ doInit' = "persisting"
  /\ db' = openDatabase(idb)
  /\ dirty' = FALSE
  /\ persisting' = Append(persisting, [data |-> db', init |-> TRUE])
  /\ UNCHANGED << initPromise, attempts, initCalls, saveScheduled, timerLeft, idb,
                  notInitVars >>

\* lines 157, 172: loadSqlJs rejects, or _createTables throws on the database
\* just opened: the promise of _doInit is rejected
DoInitThrows ==
  /\ doInit = "loading"
  /\ doInit' = "threw"
  /\ \E opened \in BOOLEAN : db' = IF opened THEN openDatabase(idb) ELSE db
  /\ UNCHANGED << initPromise, attempts, initCalls, dirty, saveScheduled, timerLeft,
                  persisting, idb, notInitVars >>

\* lines 149-152: the catch handler clears initPromise and rethrows
CatchRuns ==
  /\ doInit = "threw"
  /\ doInit' = "idle"
  /\ attempts' = [attempts EXCEPT ![initPromise] = "rejected"]
  /\ initPromise' = 0
  /\ UNCHANGED << initCalls, db, dirty, saveScheduled, timerLeft, persisting, idb,
                  notInitVars >>

NextInit ==
  \/ CallInit
  \/ DoInitLoads
  \/ DoInitThrows
  \/ CatchRuns
  \/ TimePasses
  \/ SaveTimerFires
  \/ PersistResolves
  \/ PersistRejects

SpecInit == InitDB /\ [][NextInit]_vars

\* the init() calls that were given the promise of run k
CallsOf(k) == {c \in 1..Len(initCalls) : initCalls[c] = k}

\* C37: at most one _doInit run is in progress and every run but the last
\* has failed, so overlapping calls share one run; every call has the promise
\* of a run, the calls of a run are consecutive and each run has a call;
\* initPromise is null exactly when no run was started or the last one has
\* failed and its handler has run, so that the next call starts a new run;
\* after a run has succeeded initPromise stays and no run follows
C37_InitOnce ==
  /\ \A k \in 1..(Len(attempts) - 1) : attempts[k] = "rejected"
  /\ \A c \in 1..Len(initCalls) : initCalls[c] \in 1..Len(attempts)
  /\ \A k \in 1..Len(attempts) : CallsOf(k) # {}
  /\ \A c \in 1..(Len(initCalls) - 1) : initCalls[c] <= initCalls[c + 1]
  /\ initPromise = 0 <=> (attempts = <<>> \/ attempts[Len(attempts)] = "rejected")
  /\ initPromise # 0 => initPromise = Len(attempts)
  /\ (doInit # "idle") => (initPromise # 0 /\ attempts[initPromise] = "pending")
  /\ Len(persisting) <= 1

\* four calls: two shared a run that failed, the next two shared the run that
\* succeeded
C37_Witness ==
  /\ initCalls = << 1, 1, 2, 2 >>
  /\ attempts = << "rejected", "fulfilled" >>
  /\ db.open
  /\ initPromise = 2

====
